---- MODULE Spec2Model ----
(***************************************************************************)
(* A model of the iOS test automator: the source-to-chunk extraction and   *)
(* ingestion pipeline of python-rag/ios_rag_mvp.py and the retrieval and   *)
(* generation endpoints of python-backend (utils.py, main.py,              *)
(* agents/test_generator.py).                                              *)
(*                                                                         *)
(* Text is modelled character by character: a Python str is a sequence of  *)
(* one-character strings, and element i of the sequence is Python index    *)
(* i - 1.  The regular expressions of the source are implemented as        *)
(* matchers over such sequences.                                           *)
(***************************************************************************)
EXTENDS Integers, Sequences, FiniteSets, TLC

VARIABLES
    \* build_chunks_for_file and audit_accessibility applied to one file
    f_text, f_path, f_blocks, f_chunks, f_findings, f_phase,
    \* runs of cmd_ingest over an application directory and a collection
    app_tree, collection, rejects_duplicate_ids, runs, last_run, prev_run,
    \* the generation service: the call waiting to be served, the module's
    \* store handle (_vectorstore), and the last call served
    pending, vectorstore, last_call,
    \* callers of get_vectorstore running as threads of one process: where
    \* each of them stands, the object it built and has not yet stored, the
    \* handle it was given, and the objects built so far
    t_pc, t_local, t_got, constructed,
    \* the dashboard: st.session_state.test_history and current_test, the
    \* number of button clicks served, and what the last click did
    test_history, current_test, clicks, last_click

chunkVars == <<f_text, f_path, f_blocks, f_chunks, f_findings, f_phase>>
ingestVars == <<app_tree, collection, rejects_duplicate_ids, runs, last_run, prev_run>>
apiVars == <<pending, vectorstore, last_call>>
threadVars == <<t_pc, t_local, t_got, constructed>>
uiVars == <<test_history, current_test, clicks, last_click>>
vars == <<chunkVars, ingestVars, apiVars, threadVars, uiVars>>
-----------------------------------------------------------------------------
(* Characters                                                              *)

Min(a, b) == IF a <= b THEN a ELSE b
Range(s) == {s[i] : i \in 1..Len(s)}

\* the characters of the model's alphabet in code-point order: tab, newline
\* and the printable ASCII characters
\* SANY cannot read a grave accent inside a string: the character U+0060 is
\* written Backtick
Backtick == "U+0060"
Ascii == <<"\t","\n"," ","!","\"","#","$","%","&","'","(",")","*","+",",","-",".","/","0","1","2","3","4","5","6","7","8","9",":",";","<","=",">","?","@","A","B","C","D","E","F","G","H","I","J","K","L","M","N","O","P","Q","R","S","T","U","V","W","X","Y","Z","[","\\","]","^","_",Backtick,"a","b","c","d","e","f","g","h","i","j","k","l","m","n","o","p","q","r","s","t","u","v","w","x","y","z","{","|","}","~">>
Ord(c) == CHOOSE i \in 1..Len(Ascii) : Ascii[i] = c

LowerAlpha == <<"a","b","c","d","e","f","g","h","i","j","k","l","m","n","o","p","q","r","s","t","u","v","w","x","y","z">>
UpperAlpha == <<"A","B","C","D","E","F","G","H","I","J","K","L","M","N","O","P","Q","R","S","T","U","V","W","X","Y","Z">>
Digits == {"0","1","2","3","4","5","6","7","8","9"}
Letters == Range(LowerAlpha) \cup Range(UpperAlpha)
\* [A-Za-z_] and \w of the regular expressions
NameStart == Letters \cup {"_"}
WordChars == Letters \cup Digits \cup {"_"}
\* \s of the regular expressions and the characters str.strip() removes
WS == {" ", "\n", "\t"}


-----------------------------------------------------------------------------
(* String primitives                                                       *)

\* the characters of the keys, kinds and other fixed words of the source
CharsOf ==
       ("kind" :> <<"k","i","n","d">>)
    @@ ("path" :> <<"p","a","t","h">>)
    @@ ("screen" :> <<"s","c","r","e","e","n">>)
    @@ ("symbol" :> <<"s","y","m","b","o","l">>)
    @@ ("accessibility_ids" :> <<"a","c","c","e","s","s","i","b","i","l","i","t","y","_","i","d","s">>)
    @@ ("accessibility_id_count" :> <<"a","c","c","e","s","s","i","b","i","l","i","t","y","_","i","d","_","c","o","u","n","t">>)
    @@ ("buttons" :> <<"b","u","t","t","o","n","s">>)
    @@ ("button_count" :> <<"b","u","t","t","o","n","_","c","o","u","n","t">>)
    @@ ("navigation_signals" :> <<"n","a","v","i","g","a","t","i","o","n","_","s","i","g","n","a","l","s">>)
    @@ ("swiftui_view" :> <<"s","w","i","f","t","u","i","_","v","i","e","w">>)
    @@ ("uikit_viewcontroller" :> <<"u","i","k","i","t","_","v","i","e","w","c","o","n","t","r","o","l","l","e","r">>)
    @@ ("screen_card" :> <<"s","c","r","e","e","n","_","c","a","r","d">>)
    @@ ("accessibility_map" :> <<"a","c","c","e","s","s","i","b","i","l","i","t","y","_","m","a","p">>)
    @@ ("swift_raw" :> <<"s","w","i","f","t","_","r","a","w">>)
    @@ ("accessibility_audit" :> <<"a","c","c","e","s","s","i","b","i","l","i","t","y","_","a","u","d","i","t">>)
    @@ ("type" :> <<"t","y","p","e">>)
    @@ ("ui" :> <<"u","i">>)
    @@ ("has_navigation_signals" :> <<"h","a","s","_","n","a","v","i","g","a","t","i","o","n","_","s","i","g","n","a","l","s">>)
    @@ ("SCREEN_CARD" :> <<"S","C","R","E","E","N","_","C","A","R","D">>)
    @@ ("SwiftUI" :> <<"S","w","i","f","t","U","I">>)
    @@ ("UIKit" :> <<"U","I","K","i","t">>)
    @@ ("ACCESSIBILITY_AUDIT" :> <<"A","C","C","E","S","S","I","B","I","L","I","T","Y","_","A","U","D","I","T">>)
    @@ ("summary" :> <<"s","u","m","m","a","r","y">>)
    @@ ("flagged" :> <<"f","l","a","g","g","e","d">>)
    @@ ("total_flagged" :> <<"t","o","t","a","l","_","f","l","a","g","g","e","d">>)
    @@ ("flagged_screens" :> <<"f","l","a","g","g","e","d","_","s","c","r","e","e","n","s">>)
    @@ ("note" :> <<"n","o","t","e">>)
    @@ ("interactive_count" :> <<"i","n","t","e","r","a","c","t","i","v","e","_","c","o","u","n","t">>)

\* smallest index e >= from with t[e] in C, Len(t) + 1 when there is none
FirstIn(t, from, C) ==
    IF from > Len(t) THEN Len(t) + 1
    ELSE CHOOSE e \in from..(Len(t) + 1) :
            /\ (e = Len(t) + 1 \/ t[e] \in C)
            /\ \A k \in from..(e - 1) : t[k] \notin C

\* smallest index e >= from with t[e] not in C, Len(t) + 1 when there is none
FirstNotIn(t, from, C) ==
    IF from > Len(t) THEN Len(t) + 1
    ELSE CHOOSE e \in from..(Len(t) + 1) :
            /\ (e = Len(t) + 1 \/ t[e] \notin C)
            /\ \A k \in from..(e - 1) : t[k] \in C

\* largest index e <= Len(t) with t[e] not in C, 0 when there is none
LastNotIn(t, C) ==
    IF \A k \in 1..Len(t) : t[k] \in C THEN 0
    ELSE CHOOSE e \in 1..Len(t) :
            /\ t[e] \notin C
            /\ \A k \in (e + 1)..Len(t) : t[k] \in C

\* the literal lit occurs in t at index s
MatchLit(t, s, lit) ==
    /\ s >= 1
    /\ s + Len(lit) - 1 <= Len(t)
    /\ \A j \in 1..Len(lit) : t[s + j - 1] = lit[j]

IsWordAt(t, i) == i >= 1 /\ i <= Len(t) /\ t[i] \in WordChars
\* \b between t[p-1] and t[p]
WordBoundary(t, p) == IsWordAt(t, p - 1) # IsWordAt(t, p)
\* (?m)^ before t[p]
LineStart(t, p) == p = 1 \/ (p >= 2 /\ p <= Len(t) + 1 /\ t[p - 1] = "\n")

\* str.strip()
strip(t) ==
    LET lo == FirstNotIn(t, 1, WS)
        hi == LastNotIn(t, WS)
    IN  IF hi = 0 THEN <<>> ELSE SubSeq(t, lo, hi)

\* the elements of a set of integers in increasing order
SortedInts(S) ==
    [k \in 1..Cardinality(S) |->
        CHOOSE s \in S : Cardinality({x \in S : x < s}) = k - 1]

\* str.splitlines(): a line starts at index 1 and after every newline, and a
\* newline that ends the text starts no line
splitlines(t) ==
    LET starts == SortedInts({s \in 1..Len(t) : s = 1 \/ t[s - 1] = "\n"})
    IN  [k \in 1..Len(starts) |->
            SubSeq(t, starts[k], FirstIn(t, starts[k], {"\n"}) - 1)]

\* t < u in Python's str order (code points, a proper prefix first)
StrLess(t, u) ==
    LET n == Min(Len(t), Len(u))
        D == {i \in 1..n : t[i] # u[i]}
    IN  IF D = {} THEN Len(t) < Len(u)
        ELSE LET d == CHOOSE i \in D : \A j \in D : i <= j
             IN  Ord(t[d]) < Ord(u[d])

\* sorted(S) for a set S of strings
RECURSIVE SortedSeq(_)
SortedSeq(S) ==
    IF S = {} THEN <<>>
    ELSE LET m == CHOOSE x \in S : \A y \in S : x = y \/ StrLess(x, y)
         IN  <<m>> \o SortedSeq(S \ {m})

\* sep.join(items)
RECURSIVE JoinFrom(_, _, _)
JoinFrom(items, sep, k) ==
    IF k > Len(items) THEN <<>>
    ELSE IF k = Len(items) THEN items[k]
    ELSE items[k] \o sep \o JoinFrom(items, sep, k + 1)
join(sep, items) == JoinFrom(items, sep, 1)

\* the concatenation of a list of lists
RECURSIVE Concat(_)
Concat(ss) == IF Len(ss) = 0 THEN <<>> ELSE Head(ss) \o Concat(Tail(ss))

\* str.startswith, str.endswith
startswith(t, prefix) == MatchLit(t, 1, prefix)
endswith(t, suffix) ==
    Len(t) >= Len(suffix) /\ MatchLit(t, Len(t) - Len(suffix) + 1, suffix)

\* str.replace(a, b) for single characters a and b
replace(t, a, b) == [i \in 1..Len(t) |-> IF t[i] = a THEN b ELSE t[i]]

\* items[:n]
Take(items, n) == SubSeq(items, 1, Min(n, Len(items)))

-----------------------------------------------------------------------------
(* Regular expressions                                                     *)

\* A pattern of the shape  \b? lit1 \s* lit2 \s* ... litn \b?
Re(wb, parts, we) == [wb |-> wb, parts |-> parts, we |-> we]

RECURSIVE PartsEnd(_, _, _, _)
PartsEnd(t, s, parts, k) ==
    IF k > Len(parts) THEN s
    ELSE LET p == IF k = 1 THEN s ELSE FirstNotIn(t, s, WS)
         IN  IF MatchLit(t, p, parts[k])
             THEN PartsEnd(t, p + Len(parts[k]), parts, k + 1)
             ELSE 0

\* the index after the match of re that starts at index s, 0 when re does
\* not match there
ReMatchEnd(t, s, re) ==
    IF ~MatchLit(t, s, re.parts[1]) THEN 0
    ELSE IF re.wb /\ ~WordBoundary(t, s) THEN 0
    ELSE LET e == PartsEnd(t, s, re.parts, 1)
         IN  IF e # 0 /\ re.we /\ ~WordBoundary(t, e) THEN 0 ELSE e

\* re.search(t) is not None
re_search(re, t) == \E s \in 1..Len(t) : ReMatchEnd(t, s, re) # 0

NAV_PATTERNS == <<
    Re(TRUE, <<<<"n","a","v","i","g","a","t","i","o","n","C","o","n","t","r","o","l","l","e","r","?",".">>, <<"p","u","s","h","V","i","e","w","C","o","n","t","r","o","l","l","e","r">>, <<"(">>>>, FALSE),
    Re(TRUE, <<<<"p","u","s","h","V","i","e","w","C","o","n","t","r","o","l","l","e","r">>, <<"(">>>>, FALSE),
    Re(TRUE, <<<<"p","r","e","s","e","n","t">>, <<"(">>>>, FALSE),
    Re(TRUE, <<<<"N","a","v","i","g","a","t","i","o","n","S","t","a","c","k">>>>, TRUE),
    Re(TRUE, <<<<"n","a","v","i","g","a","t","i","o","n","D","e","s","t","i","n","a","t","i","o","n">>, <<"(">>>>, FALSE),
    Re(TRUE, <<<<"s","h","e","e","t">>, <<"(">>>>, FALSE),
    Re(TRUE, <<<<"f","u","l","l","S","c","r","e","e","n","C","o","v","e","r">>, <<"(">>>>, FALSE) >>

\* the keyword alternations \b(k1|k2|...)\b
SWIFTUI_INTERACTIVE_RE == <<<<"B","u","t","t","o","n">>, <<"T","e","x","t","F","i","e","l","d">>, <<"S","e","c","u","r","e","F","i","e","l","d">>, <<"T","o","g","g","l","e">>, <<"P","i","c","k","e","r">>>>
UIKIT_INTERACTIVE_RE ==
    <<<<"U","I","B","u","t","t","o","n">>, <<"U","I","T","e","x","t","F","i","e","l","d">>, <<"U","I","S","w","i","t","c","h">>, <<"U","I","S","e","g","m","e","n","t","e","d","C","o","n","t","r","o","l">>,
      <<"U","I","T","a","b","l","e","V","i","e","w">>, <<"U","I","C","o","l","l","e","c","t","i","o","n","V","i","e","w">>>>

\* len(RE.findall(t)) for a keyword alternation: the keywords are made of
\* word characters and stand between two \b, so no two matches overlap
KeywordCount(kws, t) ==
    Cardinality({s \in 1..Len(t) :
        \E k \in 1..Len(kws) : ReMatchEnd(t, s, Re(TRUE, <<kws[k]>>, TRUE)) # 0})

\* A match with one captured group: e is the index after the match (0: no
\* match), g the group
NoMatch == [e |-> 0, g |-> <<>>]

\* "([^"]+)" at index p
Quoted(t, p) ==
    IF p > Len(t) \/ t[p] # "\"" THEN NoMatch
    ELSE LET q == FirstIn(t, p + 1, {"\""})
         IN  IF q > Len(t) \/ q = p + 1 THEN NoMatch
             ELSE [e |-> q + 1, g |-> SubSeq(t, p + 1, q - 1)]

\* prefix \s* "([^"]+)" \s* \)   at index s
CallWithLiteral(prefix, t, s) ==
    LET Close(m, r) ==
            IF r <= Len(t) /\ t[r] = ")" THEN [e |-> r + 1, g |-> m.g]
            ELSE NoMatch
        Literal(m) ==
            IF m.e = 0 THEN NoMatch ELSE Close(m, FirstNotIn(t, m.e, WS))
    IN  IF ~MatchLit(t, s, prefix) THEN NoMatch
        ELSE Literal(Quoted(t, FirstNotIn(t, s + Len(prefix), WS)))

\* \.accessibilityIdentifier\(\s*"([^"]+)"\s*\)
SWIFTUI_A11Y_ID_RE(t, s) == CallWithLiteral(<<".","a","c","c","e","s","s","i","b","i","l","i","t","y","I","d","e","n","t","i","f","i","e","r">> \o <<"(">>, t, s)

\* \.accessibilityIdentifier\s*=\s*"([^"]+)"
UIKIT_A11Y_ID_RE(t, s) ==
    LET Assigned(p) ==
            IF p > Len(t) \/ t[p] # "=" THEN NoMatch
            ELSE Quoted(t, FirstNotIn(t, p + 1, WS))
    IN  IF ~MatchLit(t, s, <<".","a","c","c","e","s","s","i","b","i","l","i","t","y","I","d","e","n","t","i","f","i","e","r">>) THEN NoMatch
        ELSE Assigned(FirstNotIn(t, s + Len(<<".","a","c","c","e","s","s","i","b","i","l","i","t","y","I","d","e","n","t","i","f","i","e","r">>), WS))

\* Button\(\s*"([^"]+)"\s*\)
SWIFTUI_BUTTON_RE(t, s) == CallWithLiteral(<<"B","u","t","t","o","n","(">>, t, s)

GroupMatch(re, t, s) ==
    CASE re = "SWIFTUI_A11Y_ID_RE" -> SWIFTUI_A11Y_ID_RE(t, s)
      [] re = "UIKIT_A11Y_ID_RE" -> UIKIT_A11Y_ID_RE(t, s)
      [] re = "SWIFTUI_BUTTON_RE" -> SWIFTUI_BUTTON_RE(t, s)

\* the matches among ms, each a record with the index s where it starts and
\* the index e after it
Matching(ms) == {m \in ms : m.e # 0}

\* the scan of findall and finditer: the leftmost match that starts at or
\* after from, then the scan from the index after it
RECURSIVE Leftmost(_, _)
Leftmost(ms, from) ==
    LET S == {m \in ms : m.s >= from}
    IN  IF S = {} THEN <<>>
        ELSE LET m == CHOOSE x \in S : \A y \in S : x.s <= y.s
             IN  <<m>> \o Leftmost(ms, m.e)

\* re.findall(t): the groups of the leftmost non-overlapping matches
FindAllFrom(re, t, from) ==
    Leftmost(Matching({[s |-> s] @@ GroupMatch(re, t, s) : s \in from..Len(t)}),
             from)
Groups(ms) == [k \in 1..Len(ms) |-> ms[k].g]
findall(re, t) == Groups(FindAllFrom(re, t, 1))

\* (public|internal|private|fileprivate|open)?
MODIFIERS == {<<"p","u","b","l","i","c">>, <<"i","n","t","e","r","n","a","l">>, <<"p","r","i","v","a","t","e">>, <<"f","i","l","e","p","r","i","v","a","t","e">>, <<"o","p","e","n">>}
AfterModifier(t, p) ==
    IF \E m \in MODIFIERS : MatchLit(t, p, m)
    THEN p + Len(CHOOSE m \in MODIFIERS : MatchLit(t, p, m))
    ELSE p

\* kw \s+ ([A-Za-z_]\w*) \s* :   at index p: e is the index after the colon
DeclName(kw, t, p) ==
    LET Colon(b, c, d) ==
            IF d > Len(t) \/ t[d] # ":" THEN NoMatch
            ELSE [e |-> d + 1, g |-> SubSeq(t, b, c - 1)]
        Name(b, c) == Colon(b, c, FirstNotIn(t, c, WS))
        Space(a, b) ==
            IF b = a \/ b > Len(t) \/ t[b] \notin NameStart THEN NoMatch
            ELSE Name(b, FirstNotIn(t, b, WordChars))
    IN  IF ~MatchLit(t, p, kw) THEN NoMatch
        ELSE Space(p + Len(kw), FirstNotIn(t, p + Len(kw), WS))

\* (?m)^\s*(public|internal|private|fileprivate|open)?\s*struct\s+
\*     ([A-Za-z_]\w*)\s*:\s*View\s*\{          (g is group 2)
SWIFTUI_VIEW_START_RE(t, s) ==
    LET Open(n, b) ==
            IF b <= Len(t) /\ t[b] = "{" THEN [e |-> b + 1, g |-> n.g]
            ELSE NoMatch
        Conforms(n, v) ==
            IF ~MatchLit(t, v, <<"V","i","e","w">>) THEN NoMatch
            ELSE Open(n, FirstNotIn(t, v + Len(<<"V","i","e","w">>), WS))
        Named(n) ==
            IF n.e = 0 THEN NoMatch ELSE Conforms(n, FirstNotIn(t, n.e, WS))
    IN  IF ~LineStart(t, s) THEN NoMatch
        ELSE Named(DeclName(<<"s","t","r","u","c","t">>, t,
                 FirstNotIn(t, AfterModifier(t, FirstNotIn(t, s, WS)), WS)))

\* ([^{\n]*\bUIViewController\b[^{\n]*)\s*\{  after the \s* that follows the
\* colon at index c - 1: b is the first "{" at or after c, and some whole
\* word UIViewController at u lies before it such that whatever precedes
\* the last newline of c..u-1 is white space, and so is whatever follows the
\* first newline between the word and b
SuperclassEnd(t, c) ==
    LET b == FirstIn(t, c, {"{"})
        W == Len(<<"U","I","V","i","e","w","C","o","n","t","r","o","l","l","e","r">>)
        ok(u) ==
            /\ MatchLit(t, u, <<"U","I","V","i","e","w","C","o","n","t","r","o","l","l","e","r">>)
            /\ WordBoundary(t, u)
            /\ WordBoundary(t, u + W)
            /\ \A k \in c..(u - 1) :
                   (\E k2 \in k..(u - 1) : t[k2] = "\n") => t[k] \in WS
            /\ \A k \in (u + W)..(b - 1) :
                   (\E k2 \in (u + W)..k : t[k2] = "\n") => t[k] \in WS
    IN  IF b > Len(t) THEN 0
        ELSE IF \E u \in c..(b - W) : ok(u) THEN b + 1 ELSE 0

\* (?m)^\s*(public|internal|private|fileprivate|open)?\s*(final\s+)?class\s+
\*     ([A-Za-z_]\w*)\s*:\s*([^{\n]*\bUIViewController\b[^{\n]*)\s*\{
\*                                              (g is group 3)
UIKIT_VC_START_RE(t, s) ==
    LET Inherits(n, e) == IF e = 0 THEN NoMatch ELSE [e |-> e, g |-> n.g]
        Named(n) == IF n.e = 0 THEN NoMatch ELSE Inherits(n, SuperclassEnd(t, n.e))
        \* (final\s+)? at index p, f the index after the word and q the index
        \* after the white space that follows it
        Final(p, f, q) ==
            Named(DeclName(<<"c","l","a","s","s">>, t,
                           IF MatchLit(t, p, <<"f","i","n","a","l">>) /\ q > f THEN q ELSE p))
        Modified(p) == Final(p, p + Len(<<"f","i","n","a","l">>), FirstNotIn(t, p + Len(<<"f","i","n","a","l">>), WS))
    IN  IF ~LineStart(t, s) THEN NoMatch
        ELSE Modified(FirstNotIn(t, AfterModifier(t, FirstNotIn(t, s, WS)), WS))

DeclMatch(re, t, s) ==
    CASE re = "SWIFTUI_VIEW_START_RE" -> SWIFTUI_VIEW_START_RE(t, s)
      [] re = "UIKIT_VC_START_RE" -> UIKIT_VC_START_RE(t, s)

\* start_re.finditer(text): the leftmost non-overlapping matches, each with
\* Python's m.start(), m.end() and the name group
FindIterFrom(re, t, from) ==
    Leftmost(Matching({[s |-> s] @@ DeclMatch(re, t, s) : s \in from..Len(t)}),
             from)
Spans(ms) ==
    [k \in 1..Len(ms) |->
        [start |-> ms[k].s - 1, end |-> ms[k].e - 1, name |-> ms[k].g]]
finditer(re, t) == Spans(FindIterFrom(re, t, 1))

-----------------------------------------------------------------------------
(* Block extraction                                                        *)

\* str.find(c, start): a Python index, -1 when c does not occur
find(t, c, start) ==
    LET e == FirstIn(t, start + 1, {c})
    IN  IF e > Len(t) THEN -1 ELSE e - 1

\* the while loop of find_matching_brace; i and the result are Python
\* indexes.  An iteration on a character that is no brace changes only i, so
\* the loop is taken from one brace to the next
RECURSIVE MatchingBraceLoop(_, _, _)
MatchingBraceLoop(text, i, depth) ==
    LET j == FirstIn(text, i + 1, {"{", "}"}) - 1
    IN  IF j >= Len(text) THEN Len(text) - 1
        ELSE IF text[j + 1] = "{" THEN MatchingBraceLoop(text, j + 1, depth + 1)
        ELSE IF depth - 1 = 0 THEN j
        ELSE MatchingBraceLoop(text, j + 1, depth - 1)

\* a matcher that stops at the first closing delimiter, whatever the depth
find_matching_brace_first_close(text, open_index) ==
    LET j == FirstIn(text, open_index + 1, {"}"}) - 1
    IN  IF j >= Len(text) THEN Len(text) - 1 ELSE j

find_matching_brace(text, open_index) == MatchingBraceLoop(text, open_index, 0)

\* text[a:b]
Slice(text, a, b) == SubSeq(text, a + 1, Min(b, Len(text)))

BlockOf(text, m) ==
    LET brace_open == find(text, "{", m.end - 1)
        end == find_matching_brace(text, brace_open)
    IN  [name |-> m.name, block |-> strip(Slice(text, m.start, end + 1))]

\* an extraction that drops a declaration whose block is never closed
extract_blocks_closed_only(text, start_re) ==
    LET Blocks(keep) == [k \in 1..Len(keep) |-> BlockOf(text, keep[k])]
        Closed(m) ==
            \E i \in (m.end + 1)..Len(text) :
                /\ text[i] = "}"
                /\ Cardinality({j \in m.end..i : text[j] = "{"})
                       = Cardinality({j \in m.end..i : text[j] = "}"})
    IN  Blocks(SelectSeq(finditer(start_re, text),
                         LAMBDA m : find(text, "{", m.end - 1) # -1 /\ Closed(m)))

\* extract_blocks(text, start_re, name_group, kind): the (name, block_text)
\* pairs; a match with no "{" at or after m.end() - 1 is skipped
extract_blocks(text, start_re) ==
    LET Blocks(keep) == [k \in 1..Len(keep) |-> BlockOf(text, keep[k])]
    IN  Blocks(SelectSeq(finditer(start_re, text),
                         LAMBDA m : find(text, "{", m.end - 1) # -1))

-----------------------------------------------------------------------------
(* JSON and metadata                                                       *)

AUDIT_NOTE ==
    <<"H","e","u","r","i","s","t","i","c"," ","a","u","d","i","t",":"," ","i","n","t","e","r","a","c","t","i","v","e"," ","e","l","e","m","e","n","t","s"," ","e","x","i","s","t"," ","b","u","t"," ","n","o"," ","a","c","c","e","s","s","i","b","i","l","i","t","y"," ","i","d","e","n","t","i","f","i","e","r","s"," ","w","e","r","e"," ","d","e","t","e","c","t","e","d"," ","i","n","s","i","d","e"," ","t","h","e"," ","s","c","r","e","e","n"," ","b","l","o","c","k",".">>

\* the decimal digits of a natural number
RECURSIVE IntStr(_)
IntStr(n) ==
    LET d == <<"0","1","2","3","4","5","6","7","8","9">>[(n % 10) + 1]
    IN  IF n < 10 THEN <<d>> ELSE IntStr(n \div 10) \o <<d>>

\* json.dumps of one character of a string (ensure_ascii=False)
JsonChar(c) ==
    CASE c = "\"" -> <<"\\", "\"">>
      [] c = "\\" -> <<"\\", "\\">>
      [] c = "\n" -> <<"\\", "n">>
      [] c = "\t" -> <<"\\", "t">>
      [] OTHER -> <<c>>

RECURSIVE JsonChars(_, _, _)
JsonChars(t, lo, hi) ==
    IF lo > hi THEN <<>>
    ELSE IF lo = hi THEN JsonChar(t[lo])
    ELSE LET mid == (lo + hi) \div 2
         IN  JsonChars(t, lo, mid) \o JsonChars(t, mid + 1, hi)

JsonStr(t) == <<"\"">> \o JsonChars(t, 1, Len(t)) \o <<"\"">>
JsonBool(b) == IF b THEN <<"t","r","u","e">> ELSE <<"f","a","l","s","e">>
JsonList(items) == <<"[">> \o join(<<",">>, items) \o <<"]">>
\* a dict given as its <<key, encoded value>> pairs in insertion order, with
\* separators=(",", ":")
JsonDict(pairs) ==
    <<"{">>
    \o join(<<",">>, [k \in 1..Len(pairs) |->
            JsonStr(CharsOf[pairs[k][1]]) \o <<":">> \o pairs[k][2]])
    \o <<"}">>

\* meta_list_to_str(items, limit=200)
META_LIST_LIMIT == 200
meta_list_to_str(items) ==
    IF Len(items) = 0 THEN <<>> ELSE join(<<"|">>, Take(items, META_LIST_LIMIT))

\* A metadata dict: keys holds the keys present, in insertion order; a field
\* whose key is absent holds its empty value
NoMeta ==
    [keys |-> <<>>, kind |-> "", path |-> <<>>, screen |-> <<>>, symbol |-> <<>>,
     accessibility_ids |-> <<>>, accessibility_id_count |-> 0,
     buttons |-> <<>>, button_count |-> 0, navigation_signals |-> 0]

IntKeys == {"accessibility_id_count", "button_count", "navigation_signals"}
HasKey(meta, key) == key \in Range(meta.keys)

\* safe_json(meta)
MetaJson(meta) ==
    JsonDict([k \in 1..Len(meta.keys) |->
        LET key == meta.keys[k]
        IN  <<key, IF key = "kind" THEN JsonStr(CharsOf[meta.kind])
                   ELSE IF key \in IntKeys THEN IntStr(meta[key])
                   ELSE JsonStr(meta[key])>>])

-----------------------------------------------------------------------------
(* Chunking                                                                *)

Chunk(text, meta) == [text |-> text, meta |-> meta]

BUTTONS_LIMIT == 50
CARD_IDS_LIMIT == 200
NAV_LINES_LIMIT == 60
RAW_LIMIT == 4000

\* sum(1 for pat in NAV_PATTERNS if pat.search(block))
NavHits(block) ==
    Cardinality({i \in 1..Len(NAV_PATTERNS) : re_search(NAV_PATTERNS[i], block)})

\* the block chunk and the screen card of one SwiftUI view block
ViewChunks(b, rel_path) ==
    LET Pair(meta, card) ==
            <<Chunk(b.block, meta), Chunk(card, [meta EXCEPT !.kind = "screen_card"])>>
        Facts(a11y_ids, buttons, nav_hits) == Pair(
          [NoMeta EXCEPT
            !.keys = <<"kind", "path", "screen", "symbol", "accessibility_ids",
                       "accessibility_id_count", "buttons", "button_count",
                       "navigation_signals">>,
            !.kind = "swiftui_view",
            !.path = rel_path,
            !.screen = b.name,
            !.symbol = b.name,
            !.accessibility_ids = meta_list_to_str(a11y_ids),
            !.accessibility_id_count = Len(a11y_ids),
            !.buttons = meta_list_to_str(Take(buttons, BUTTONS_LIMIT)),
            !.button_count = Len(buttons),
            !.navigation_signals = nav_hits],
          JsonDict(<<
            <<"type", JsonStr(<<"S","C","R","E","E","N","_","C","A","R","D">>)>>,
            <<"ui", JsonStr(<<"S","w","i","f","t","U","I">>)>>,
            <<"screen", JsonStr(b.name)>>,
            <<"path", JsonStr(rel_path)>>,
            <<"buttons", JsonList([k \in 1..Min(BUTTONS_LIMIT, Len(buttons)) |->
                                      JsonStr(buttons[k])])>>,
            <<"accessibility_ids",
              JsonList([k \in 1..Min(CARD_IDS_LIMIT, Len(a11y_ids)) |->
                           JsonStr(a11y_ids[k])])>>,
            <<"has_navigation_signals", JsonBool(nav_hits # 0)>> >>))
    IN  Facts(SortedSeq(Range(findall("SWIFTUI_A11Y_ID_RE", b.block))),
              SortedSeq(Range(findall("SWIFTUI_BUTTON_RE", b.block))),
              NavHits(b.block))

\* the block chunk and the screen card of one UIKit view controller block
ControllerChunks(b, rel_path) ==
    LET Pair(meta, card) ==
            <<Chunk(b.block, meta), Chunk(card, [meta EXCEPT !.kind = "screen_card"])>>
        Facts(a11y_ids, nav_hits) == Pair(
          [NoMeta EXCEPT
            !.keys = <<"kind", "path", "screen", "symbol", "accessibility_ids",
                       "accessibility_id_count", "navigation_signals">>,
            !.kind = "uikit_viewcontroller",
            !.path = rel_path,
            !.screen = b.name,
            !.symbol = b.name,
            !.accessibility_ids = meta_list_to_str(a11y_ids),
            !.accessibility_id_count = Len(a11y_ids),
            !.navigation_signals = nav_hits],
          JsonDict(<<
            <<"type", JsonStr(<<"S","C","R","E","E","N","_","C","A","R","D">>)>>,
            <<"ui", JsonStr(<<"U","I","K","i","t">>)>>,
            <<"screen", JsonStr(b.name)>>,
            <<"path", JsonStr(rel_path)>>,
            <<"accessibility_ids",
              JsonList([k \in 1..Min(CARD_IDS_LIMIT, Len(a11y_ids)) |->
                           JsonStr(a11y_ids[k])])>>,
            <<"has_navigation_signals", JsonBool(nav_hits # 0)>> >>))
    IN  Facts(SortedSeq(Range(findall("UIKIT_A11Y_ID_RE", b.block))),
              NavHits(b.block))

\* the concatenation of the pairs of chunks of a list of blocks
PairUp(pairs) ==
    [i \in 1..(2 * Len(pairs)) |-> pairs[(i + 1) \div 2][2 - (i % 2)]]

\* a map made of the identifiers of the declarative-call form alone
AccessibilityMapChunks_call_form_only(file_text, rel_path) ==
    LET Map(file_ids) ==
          IF Len(file_ids) = 0 THEN <<>>
          ELSE <<Chunk(<<"A","C","C","E","S","S","I","B","I","L","I","T","Y","_","I","D","S","\n","p","a","t","h",":"," ">> \o rel_path \o <<"\n">>
                    \o join(<<"\n">>, file_ids),
                [NoMeta EXCEPT
                !.keys = <<"kind", "path", "accessibility_ids",
                           "accessibility_id_count">>,
                !.kind = "accessibility_map",
                !.path = rel_path,
                !.accessibility_ids = meta_list_to_str(file_ids),
                !.accessibility_id_count = Len(file_ids)])>>
    IN  Map(SortedSeq(Range(findall("SWIFTUI_A11Y_ID_RE", file_text))))

\* the accessibility map chunk of a file: none when the file has no identifier
AccessibilityMapChunks(file_text, rel_path) ==
    LET Map(file_ids) ==
          IF Len(file_ids) = 0 THEN <<>>
          ELSE <<Chunk(<<"A","C","C","E","S","S","I","B","I","L","I","T","Y","_","I","D","S","\n","p","a","t","h",":"," ">> \o rel_path \o <<"\n">>
                    \o join(<<"\n">>, file_ids),
                [NoMeta EXCEPT
                !.keys = <<"kind", "path", "accessibility_ids",
                           "accessibility_id_count">>,
                !.kind = "accessibility_map",
                !.path = rel_path,
                !.accessibility_ids = meta_list_to_str(file_ids),
                !.accessibility_id_count = Len(file_ids)])>>
    IN  Map(SortedSeq(Range(findall("SWIFTUI_A11Y_ID_RE", file_text))
                      \cup Range(findall("UIKIT_A11Y_ID_RE", file_text))))

\* a navigation chunk that keeps every matching line
NavigationChunks_uncapped(file_text, rel_path) ==
    LET hit(line) == \E i \in 1..Len(NAV_PATTERNS) : re_search(NAV_PATTERNS[i], line)
        Signals(nav_lines) ==
          IF Len(nav_lines) = 0 THEN <<>>
          ELSE <<Chunk(<<"N","A","V","I","G","A","T","I","O","N","_","S","I","G","N","A","L","S","\n","p","a","t","h",":"," ">> \o rel_path \o <<"\n">>
                         \o join(<<"\n">>, nav_lines),
                [NoMeta EXCEPT
                !.keys = <<"kind", "path">>,
                !.kind = "navigation_signals",
                !.path = rel_path])>>
        Stripped(matching) ==
            [k \in 1..Len(matching) |-> strip(matching[k])]
    IN  Signals(Stripped(SelectSeq(splitlines(file_text), hit)))

\* the navigation signals chunk of a file: the stripped lines that match a
\* navigation pattern, the loop stopping at the 60th
NavigationChunks(file_text, rel_path) ==
    LET hit(line) == \E i \in 1..Len(NAV_PATTERNS) : re_search(NAV_PATTERNS[i], line)
        Signals(nav_lines) ==
          IF Len(nav_lines) = 0 THEN <<>>
          ELSE <<Chunk(<<"N","A","V","I","G","A","T","I","O","N","_","S","I","G","N","A","L","S","\n","p","a","t","h",":"," ">> \o rel_path \o <<"\n">>
                         \o join(<<"\n">>, nav_lines),
                [NoMeta EXCEPT
                !.keys = <<"kind", "path">>,
                !.kind = "navigation_signals",
                !.path = rel_path])>>
        Stripped(matching) ==
            [k \in 1..Min(NAV_LINES_LIMIT, Len(matching)) |-> strip(matching[k])]
    IN  Signals(Stripped(SelectSeq(splitlines(file_text), hit)))

\* a fallback that stores the whole trimmed text
RawFallback_uncut(found, file_text, rel_path) ==
    LET Raw(raw) ==
          IF Len(found) # 0 \/ Len(raw) = 0 THEN found
          ELSE <<Chunk(raw, [NoMeta EXCEPT
                  !.keys = <<"kind", "path">>,
                  !.kind = "swift_raw",
                  !.path = rel_path])>>
    IN  Raw(strip(file_text))

\* a fallback that stores the raw slice of every file that is not blank
RawFallback_always(found, file_text, rel_path) ==
    LET Raw(raw) ==
          IF Len(raw) = 0 THEN found
          ELSE found \o <<Chunk(Take(raw, RAW_LIMIT), [NoMeta EXCEPT
                  !.keys = <<"kind", "path">>,
                  !.kind = "swift_raw",
                  !.path = rel_path])>>
    IN  Raw(strip(file_text))

\* the fallback of build_chunks_for_file, given the chunks found so far
RawFallback(found, file_text, rel_path) ==
    LET Raw(raw) ==
          IF Len(found) # 0 \/ Len(raw) = 0 THEN found
          ELSE <<Chunk(Take(raw, RAW_LIMIT), [NoMeta EXCEPT
                  !.keys = <<"kind", "path">>,
                  !.kind = "swift_raw",
                  !.path = rel_path])>>
    IN  Raw(strip(file_text))

\* a builder that emits the chunks in the order the constructs are met in a
\* typical file: the signals and the map before the screens
FoundChunks_map_first(views, vcs, file_text, rel_path) ==
    AccessibilityMapChunks(file_text, rel_path)
    \o NavigationChunks(file_text, rel_path)
    \o PairUp([k \in 1..Len(vcs) |-> ControllerChunks(vcs[k], rel_path)])
    \o PairUp([k \in 1..Len(views) |-> ViewChunks(views[k], rel_path)])

\* the chunks build_chunks_for_file appends before the fallback, given the
\* view blocks and the view controller blocks of the file
FoundChunks(views, vcs, file_text, rel_path) ==
    PairUp([k \in 1..Len(views) |-> ViewChunks(views[k], rel_path)])
    \o PairUp([k \in 1..Len(vcs) |-> ControllerChunks(vcs[k], rel_path)])
    \o AccessibilityMapChunks(file_text, rel_path)
    \o NavigationChunks(file_text, rel_path)

build_chunks_for_file(file_text, rel_path) ==
    RawFallback(FoundChunks(extract_blocks(file_text, "SWIFTUI_VIEW_START_RE"),
                            extract_blocks(file_text, "UIKIT_VC_START_RE"),
                            file_text, rel_path),
                file_text, rel_path)

-----------------------------------------------------------------------------
(* Accessibility audit                                                     *)

AuditFinding(ch, ui, interactive, ids) ==
    [path |-> ch.meta.path, screen |-> ch.meta.screen, ui |-> ui,
     interactive_count |-> interactive, accessibility_id_count |-> ids]

\* the number of interactive elements the audit counts in a chunk
InteractiveOf(ch) ==
    KeywordCount(IF ch.meta.kind = "swiftui_view" THEN SWIFTUI_INTERACTIVE_RE
                 ELSE UIKIT_INTERACTIVE_RE, ch.text)

\* a count of the identifiers of both marker forms
IdsOf_either_form(ch) ==
    Len(findall("SWIFTUI_A11Y_ID_RE", ch.text)) + Len(findall("UIKIT_A11Y_ID_RE", ch.text))

\* the number of accessibility identifiers the audit counts in a chunk
IdsOf(ch) ==
    Len(findall(IF ch.meta.kind = "swiftui_view" THEN "SWIFTUI_A11Y_ID_RE"
                ELSE "UIKIT_A11Y_ID_RE", ch.text))

\* a condition that does not look at the identifiers
Flagged_any_ids(ch) ==
    /\ ch.meta.kind \in {"swiftui_view", "uikit_viewcontroller"}
    /\ InteractiveOf(ch) > 0

\* the condition under which the audit appends a finding for a chunk
Flagged(ch) ==
    /\ ch.meta.kind \in {"swiftui_view", "uikit_viewcontroller"}
    /\ InteractiveOf(ch) > 0
    /\ IdsOf(ch) = 0

\* audit_accessibility(chunks): the findings, in the order of the chunks, and
\* the summary
audit_accessibility(all_chunks) ==
    LET Report(fs) ==
            [findings |-> fs,
             summary |-> [flagged_screens |-> Len(fs), note |-> AUDIT_NOTE]]
        Findings(flagged) ==
            [k \in 1..Len(flagged) |->
                AuditFinding(flagged[k],
                    IF flagged[k].meta.kind = "swiftui_view" THEN "SwiftUI" ELSE "UIKit",
                    InteractiveOf(flagged[k]), IdsOf(flagged[k]))]
    IN  Report(Findings(SelectSeq(all_chunks, Flagged)))

-----------------------------------------------------------------------------
(* Ingestion                                                               *)

EXCLUDE_DIRS ==
    {<<".","g","i","t">>,
     <<"P","o","d","s">>,
     <<"C","a","r","t","h","a","g","e">>,
     <<"D","e","r","i","v","e","d","D","a","t","a">>,
     <<".","b","u","i","l","d">>,
     <<".","s","w","i","f","t","p","m">>,
     <<"B","u","i","l","d">>,
     <<".","x","c","o","d","e","p","r","o","j">>,
     <<".","x","c","w","o","r","k","s","p","a","c","e">>}
SWIFT_SUFFIX == <<".","s","w","i","f","t">>

DIR_UI == <<"U","I">>
DIR_PODS == <<"P","o","d","s">>
NAME_A == <<"A",".","s","w","i","f","t">>
NAME_B == <<"B",".","s","w","i","f","t">>
NAME_C == <<"C",".","s","w","i","f","t">>

\* hashlib.sha1(s).hexdigest(): the digest is taken to be free of collisions,
\* an uninterpreted one-to-one function of the string it is computed from
sha1(s) == [sha1 |-> s]

Document(page_content, metadata) ==
    [page_content |-> page_content, metadata |-> metadata]

\* A file of the application directory: the directory names below the root,
\* the file name, and whether the file can be read and what it holds.  The
\* tree is the list of the files in the order os.walk visits them
File(dirs, name, readable, text) ==
    [dirs |-> dirs, name |-> name, readable |-> readable, text |-> text]

\* os.walk descends into a directory unless it is pruned
Descended(dirs) ==
    \A k \in 1..Len(dirs) :
        dirs[k] \notin EXCLUDE_DIRS /\ ~startswith(dirs[k], <<".">>)

\* a walk that looks only at the directory that holds the file
iter_swift_files_parent_only(tree) ==
    SelectSeq(tree, LAMBDA f :
        /\ \/ Len(f.dirs) = 0
           \/ /\ f.dirs[Len(f.dirs)] \notin EXCLUDE_DIRS
              /\ ~startswith(f.dirs[Len(f.dirs)], <<".">>)
        /\ endswith(f.name, SWIFT_SUFFIX))

iter_swift_files(tree) ==
    SelectSeq(tree, LAMBDA f : Descended(f.dirs) /\ endswith(f.name, SWIFT_SUFFIX))

normalize_path(f) == replace(join(<<"/">>, f.dirs \o <<f.name>>), "\\", "/")

read_text(f) == IF f.readable THEN f.text ELSE <<>>

\* a loop that the first file that cannot be read brings to an end
AllChunks_stopping_at_unreadable(swift_files) ==
    LET Until(n) ==
            Concat([k \in 1..n |->
                LET rel == normalize_path(swift_files[k])
                    text == read_text(swift_files[k])
                IN  IF Len(strip(text)) = 0 THEN <<>>
                    ELSE build_chunks_for_file(text, rel)])
    IN  Until(Min(Len(swift_files),
                  Cardinality({k \in 1..Len(swift_files) :
                      \A j \in 1..k : swift_files[j].readable})))

\* the loop of cmd_ingest over the files
AllChunks(swift_files) ==
    Concat([k \in 1..Len(swift_files) |->
        LET rel == normalize_path(swift_files[k])
            text == read_text(swift_files[k])
        IN  IF Len(strip(text)) = 0 THEN <<>>
            ELSE build_chunks_for_file(text, rel)])

FLAGGED_LIMIT == 200

\* safe_json(f.__dict__)
FindingJson(f) ==
    JsonDict(<< <<"path", JsonStr(f.path)>>,
                <<"screen", JsonStr(f.screen)>>,
                <<"ui", JsonStr(CharsOf[f.ui])>>,
                <<"interactive_count", IntStr(f.interactive_count)>>,
                <<"accessibility_id_count", IntStr(f.accessibility_id_count)>> >>)

\* the audit summary document of cmd_ingest
AuditDoc(audit) ==
    Document(
        JsonDict(<<
            <<"type", JsonStr(<<"A","C","C","E","S","S","I","B","I","L","I","T","Y","_","A","U","D","I","T">>)>>,
            <<"summary", JsonDict(<<
                <<"flagged_screens", IntStr(audit.summary.flagged_screens)>>,
                <<"note", JsonStr(audit.summary.note)>> >>)>>,
            <<"flagged", JsonList([k \in 1..Min(FLAGGED_LIMIT, Len(audit.findings)) |->
                                      FindingJson(audit.findings[k])])>>,
            <<"total_flagged", IntStr(Len(audit.findings))>> >>),
        [NoMeta EXCEPT !.keys = <<"kind", "path">>,
                       !.kind = "accessibility_audit",
                       !.path = <<"_","a","u","d","i","t","_">>])

\* the identifier upsert_documents gives a document
DocId(d) == sha1(d.page_content \o MetaJson(d.metadata))

\* The collection is the list of the rows it holds, each a document under its
\* identifier
Row(id, d) == [id |-> id, page_content |-> d.page_content, metadata |-> d.metadata]

\* the rows a batch leaves in the collection: one for each identifier
BatchRows(ids, docs) ==
    LET first == {k \in 1..Len(ids) : \A j \in 1..(k - 1) : ids[j] # ids[k]}
        ks == SortedInts(first)
    IN  [n \in 1..Len(ks) |-> Row(ids[ks[n]], docs[ks[n]])]

\* a collection that appends the batch without replacing by identifier
upsert_documents_append(vs, rejects_duplicates, docs) ==
    LET Add(ids) ==
            IF rejects_duplicates /\ Cardinality(Range(ids)) < Len(ids)
            THEN [raised |-> TRUE, ids |-> ids, store |-> vs]
            ELSE [raised |-> FALSE, ids |-> ids,
                  store |-> vs \o BatchRows(ids, docs)]
    IN  Add([k \in 1..Len(docs) |-> DocId(docs[k])])

\* upsert_documents(vs, docs): vs.add_documents(documents, ids) adds a row or
\* replaces the row of the same identifier; a collection that rejects a batch
\* in which an identifier occurs twice raises and writes nothing
upsert_documents(vs, rejects_duplicates, docs) ==
    LET Add(ids) ==
            IF rejects_duplicates /\ Cardinality(Range(ids)) < Len(ids)
            THEN [raised |-> TRUE, ids |-> ids, store |-> vs]
            ELSE [raised |-> FALSE, ids |-> ids,
                  store |-> SelectSeq(vs, LAMBDA r : r.id \notin Range(ids))
                            \o BatchRows(ids, docs)]
    IN  Add([k \in 1..Len(docs) |-> DocId(docs[k])])

\* What a run of cmd_ingest returns and does: the exit status (1 with raised
\* set when the exception of the collection ends the process), the collection
\* afterwards, whether the store handle was built and whether add_documents
\* was called, the identifiers computed, and the numbers of the status record
IngestResult(status, raised, vs, built, added, ids, indexed, upserted, flagged) ==
    [status |-> status, raised |-> raised, store |-> vs, built |-> built,
     added |-> added, ids |-> ids, indexed_swift_files |-> indexed,
     documents_upserted |-> upserted, flagged_screens |-> flagged]

\* the documents cmd_ingest prepares: the audit document, then the chunks
DocsOf(all_chunks, audit) ==
    <<AuditDoc(audit)>>
    \o [k \in 1..Len(all_chunks) |->
           Document(all_chunks[k].text, all_chunks[k].meta)]

IngestDocs(tree) ==
    LET Of(all_chunks) == DocsOf(all_chunks, audit_accessibility(all_chunks))
    IN  Of(AllChunks(iter_swift_files(tree)))

IngestFindings(tree) ==
    audit_accessibility(AllChunks(iter_swift_files(tree))).findings

\* a run that writes before it looks at the findings
cmd_ingest_write_first(args, tree, vs, rejects_duplicates) ==
    LET Written(swift_files, docs, n, up) ==
            IF up.raised
            THEN IngestResult(1, TRUE, vs, TRUE, TRUE, up.ids, 0, 0, 0)
            ELSE IF args.fail_if_missing_ids /\ n > 0
            THEN IngestResult(3, FALSE, up.store, TRUE, TRUE, up.ids, 0, 0, n)
            ELSE IngestResult(0, FALSE, up.store, TRUE, TRUE, up.ids,
                              Len(swift_files), Len(docs), n)
        Prepared(swift_files, docs, n) ==
            Written(swift_files, docs, n,
                    upsert_documents(vs, rejects_duplicates, docs))
        Audited(swift_files, all_chunks, audit) ==
            Prepared(swift_files, DocsOf(all_chunks, audit), Len(audit.findings))
        Chunked(swift_files, all_chunks) ==
            Audited(swift_files, all_chunks, audit_accessibility(all_chunks))
        Walked(swift_files) ==
            IF ~args.app_dir_exists \/ Len(swift_files) = 0
            THEN IngestResult(2, FALSE, vs, FALSE, FALSE, <<>>, 0, 0, 0)
            ELSE Chunked(swift_files, AllChunks(swift_files))
    IN  Walked(iter_swift_files(tree))

\* cmd_ingest(args) over the tree of args.app_dir and the collection of
\* args.persist
cmd_ingest(args, tree, vs, rejects_duplicates) ==
    LET Written(swift_files, docs, n, up) ==
            IF up.raised
            THEN IngestResult(1, TRUE, vs, TRUE, TRUE, up.ids, 0, 0, 0)
            ELSE IngestResult(0, FALSE, up.store, TRUE, TRUE, up.ids,
                              Len(swift_files), Len(docs), n)
        Prepared(swift_files, docs, n) ==
            IF args.fail_if_missing_ids /\ n > 0
            THEN IngestResult(3, FALSE, vs, FALSE, FALSE, <<>>, 0, 0, n)
            ELSE Written(swift_files, docs, n,
                         upsert_documents(vs, rejects_duplicates, docs))
        Audited(swift_files, all_chunks, audit) ==
            Prepared(swift_files, DocsOf(all_chunks, audit), Len(audit.findings))
        Chunked(swift_files, all_chunks) ==
            Audited(swift_files, all_chunks, audit_accessibility(all_chunks))
        Walked(swift_files) ==
            IF ~args.app_dir_exists \/ Len(swift_files) = 0
            THEN IngestResult(2, FALSE, vs, FALSE, FALSE, <<>>, 0, 0, 0)
            ELSE Chunked(swift_files, AllChunks(swift_files))
    IN  Walked(iter_swift_files(tree))
-----------------------------------------------------------------------------
(* Generation service: string helpers                                      *)

\* An Optional value: None, or the value in a list of one
None == <<>>
Some(v) == <<v>>
\* bool(x) of an Optional[str] or Optional[List]: None and the empty value
\* are false
Truthy(opt) == opt # None /\ Len(opt[1]) > 0

\* str.lower()
lower(t) ==
    [i \in 1..Len(t) |->
        IF t[i] \in Range(UpperAlpha)
        THEN LowerAlpha[CHOOSE k \in 1..Len(UpperAlpha) : UpperAlpha[k] = t[i]]
        ELSE t[i]]

\* sub in t
Contains(t, sub) == \E i \in 1..(Len(t) - Len(sub) + 1) : MatchLit(t, i, sub)

\* the index of the first occurrence of sub in t, which contains it
IndexOf(t, sub) ==
    CHOOSE i \in 1..(Len(t) - Len(sub) + 1) :
        /\ MatchLit(t, i, sub)
        /\ \A j \in 1..(i - 1) : ~MatchLit(t, j, sub)

\* t.split(sep) for a single character sep
split(t, sep) ==
    LET cuts == SortedInts({i \in 1..Len(t) : t[i] = sep} \cup {Len(t) + 1})
    IN  [k \in 1..Len(cuts) |->
            SubSeq(t, IF k = 1 THEN 1 ELSE cuts[k - 1] + 1, cuts[k] - 1)]

-----------------------------------------------------------------------------
(* utils.py                                                                *)

\* build_context_section(app_context): an AppContext is a record of Optional
\* fields; ui_elements is a list of <<screen, elements>> pairs
NoContext ==
    [app_name |-> None, screens |-> None, ui_elements |-> None,
     accessibility_ids |-> None, custom_types |-> None,
     source_code_snippets |-> None]

CommaJoin(items) == join(<<",", " ">>, items)

build_context_section(app_context) ==
    LET c == app_context[1]
        elements_str ==
            join(<<"\n">>, [k \in 1..Len(c.ui_elements[1]) |->
                <<" ", " ">> \o c.ui_elements[1][k][1] \o <<":", " ">>
                \o CommaJoin(c.ui_elements[1][k][2])])
        sections ==
            (IF Truthy(c.app_name)
             THEN <<<<"A","p","p"," ","N","a","m","e",":"," ">> \o c.app_name[1]>> ELSE <<>>)
            \o (IF Truthy(c.screens)
                THEN <<<<"A","v","a","i","l","a","b","l","e"," ","S","c","r","e","e","n","s",":"," ">> \o CommaJoin(c.screens[1])>>
                ELSE <<>>)
            \o (IF Truthy(c.ui_elements)
                THEN <<<<"U","I"," ","E","l","e","m","e","n","t","s",":","\n">> \o elements_str>> ELSE <<>>)
            \o (IF Truthy(c.accessibility_ids)
                THEN <<<<"A","c","c","e","s","s","i","b","i","l","i","t","y"," ","I","D","s",":"," ">> \o CommaJoin(c.accessibility_ids[1])>>
                ELSE <<>>)
            \o (IF Truthy(c.custom_types)
                THEN <<<<"C","u","s","t","o","m"," ","T","y","p","e","s",":"," ">> \o CommaJoin(c.custom_types[1])>>
                ELSE <<>>)
            \o (IF Truthy(c.source_code_snippets)
                THEN <<<<"R","e","l","e","v","a","n","t"," ","C","o","d","e",":","\n">> \o c.source_code_snippets[1]>>
                ELSE <<>>)
    IN  IF app_context = None THEN <<>>
        ELSE IF Len(sections) = 0 THEN <<>>
        ELSE <<"A","p","p"," ","C","o","n","t","e","x","t",":","\n">> \o join(<<"\n", "\n">>, sections)

\* the names of the checks of validate_xcuitest_contract, in the order of the
\* dict
CHECKS ==
    <<"has_xcuiapplication", "has_app_launch", "has_wait_for_existence",
      "has_assertions", "has_setup_teardown">>

ASSERTIONS ==
    <<<<"X","C","T","A","s","s","e","r","t","T","r","u","e">>, <<"X","C","T","A","s","s","e","r","t","E","q","u","a","l">>,
      <<"X","C","T","A","s","s","e","r","t","F","a","l","s","e">>, <<"X","C","T","A","s","s","e","r","t","N","o","t","N","i","l">>>>

\* a validator that stops at the first check that fails and reports the
\* later ones as passed
validate_xcuitest_contract_short_circuit(swift_code) ==
    LET a == Contains(swift_code, <<"X","C","U","I","A","p","p","l","i","c","a","t","i","o","n","(",")">>)
        b == Contains(swift_code, <<"a","p","p",".","l","a","u","n","c","h","(",")">>)
        c == \/ Contains(swift_code, <<"w","a","i","t","F","o","r","E","x","i","s","t","e","n","c","e","(","t","i","m","e","o","u","t",":">>)
             \/ Contains(swift_code, <<"X","C","T","N","S","P","r","e","d","i","c","a","t","e","E","x","p","e","c","t","a","t","i","o","n">>)
        d == \E k \in 1..Len(ASSERTIONS) : Contains(swift_code, ASSERTIONS[k])
        e == /\ Contains(swift_code, <<"s","e","t","U","p","W","i","t","h","E","r","r","o","r">>)
             /\ Contains(swift_code, <<"t","e","a","r","D","o","w","n","W","i","t","h","E","r","r","o","r">>)
    IN  [has_xcuiapplication |-> a,
         has_app_launch |-> ~a \/ b,
         has_wait_for_existence |-> ~(a /\ b) \/ c,
         has_assertions |-> ~(a /\ b /\ c) \/ d,
         has_setup_teardown |-> ~(a /\ b /\ c /\ d) \/ e]

validate_xcuitest_contract(swift_code) ==
    [has_xcuiapplication |-> Contains(swift_code, <<"X","C","U","I","A","p","p","l","i","c","a","t","i","o","n","(",")">>),
     has_app_launch |-> Contains(swift_code, <<"a","p","p",".","l","a","u","n","c","h","(",")">>),
     has_wait_for_existence |->
        \/ Contains(swift_code, <<"w","a","i","t","F","o","r","E","x","i","s","t","e","n","c","e","(","t","i","m","e","o","u","t",":">>)
        \/ Contains(swift_code, <<"X","C","T","N","S","P","r","e","d","i","c","a","t","e","E","x","p","e","c","t","a","t","i","o","n">>),
     has_assertions |->
        \E k \in 1..Len(ASSERTIONS) : Contains(swift_code, ASSERTIONS[k]),
     has_setup_teardown |->
        /\ Contains(swift_code, <<"s","e","t","U","p","W","i","t","h","E","r","r","o","r">>)
        /\ Contains(swift_code, <<"t","e","a","r","D","o","w","n","W","i","t","h","E","r","r","o","r">>)]

\* the markdown fence, three grave accents, and the fence that names Swift
FENCE == <<Backtick, Backtick, Backtick>>
FENCE_SWIFT == FENCE \o <<"s","w","i","f","t">>

strip_code_fences(swift_code) ==
    LET Closing(s2) ==
            IF endswith(s2, FENCE) THEN strip(SubSeq(s2, 1, Len(s2) - 3)) ELSE s2
        Opening(s1) ==
            Closing(IF startswith(s1, FENCE)
                    THEN strip(SubSeq(s1, Len(FENCE) + 1, Len(s1))) ELSE s1)
        OpeningSwift(s0) ==
            Opening(IF startswith(s0, FENCE_SWIFT)
                    THEN strip(SubSeq(s0, Len(FENCE_SWIFT) + 1, Len(s0))) ELSE s0)
    IN  OpeningSwift(strip(swift_code))

\* the name extract_class_name reads in a line that holds "class " and
\* ": XCTestCase"
NameInLine(line) ==
    LET from == IndexOf(line, <<"c","l","a","s","s"," ">>) + Len(<<"c","l","a","s","s"," ">>)
        after == SubSeq(line, from, Len(line))
    IN  strip(SubSeq(after, 1, FirstIn(after, 1, {":"}) - 1))

extract_class_name(swift_code, fallback) ==
    LET First(lines, named) ==
            IF named = {} THEN fallback
            ELSE NameInLine(lines[CHOOSE k \in named : \A j \in named : k <= j])
        Named(lines) == First(lines, {k \in 1..Len(lines) :
                    /\ Contains(lines[k], <<"c","l","a","s","s"," ">>)
                    /\ Contains(lines[k], <<":"," ","X","C","T","e","s","t","C","a","s","e">>)
                    /\ Len(NameInLine(lines[k])) > 0})
    IN  Named(splitlines(swift_code))

\* config.RAG_TOP_K
RAG_TOP_K == 10
SNIPPET_KINDS == {"swiftui_view", "accessibility_map", "screen_card"}
SNIPPET_LIMIT == 500
SNIPPETS_LIMIT == 5

\* What the store does when it is reached: whether the handle can be built,
\* whether the search succeeds, the message of the exception when one of them
\* does not, and the documents of the collection ranked for the query
StoreBehaviour(build_ok, search_ok, message, ranked) ==
    [build_ok |-> build_ok, search_ok |-> search_ok, message |-> message,
     ranked |-> ranked]

\* a get_vectorstore that builds a handle at every call
get_vectorstore_per_call(handle, behaviour) ==
    IF behaviour.build_ok
    THEN [raised |-> FALSE, handle |-> Some("Chroma"), constructions |-> 1]
    ELSE [raised |-> TRUE, handle |-> handle, constructions |-> 1]

\* get_vectorstore(): the handle, and whether it was built by this call; the
\* construction raises when the store cannot be built
get_vectorstore(handle, behaviour) ==
    IF handle # None
    THEN [raised |-> FALSE, handle |-> handle, constructions |-> 0]
    ELSE IF behaviour.build_ok
    THEN [raised |-> FALSE, handle |-> Some("Chroma"), constructions |-> 1]
    ELSE [raised |-> TRUE, handle |-> None, constructions |-> 1]

\* the ContextBundle of query_rag
Bundle(accessibility_ids, screens, code_snippets, total, error) ==
    [accessibility_ids |-> accessibility_ids, screens |-> screens,
     code_snippets |-> code_snippets, total_docs_retrieved |-> total,
     error |-> error]

\* a snippet that holds the whole content of the document
Snippet_uncut(doc) ==
    [kind |-> doc.metadata.kind, path |-> doc.metadata.path,
     screen |-> doc.metadata.screen, content |-> doc.page_content]

Snippet(doc) ==
    [kind |-> doc.metadata.kind, path |-> doc.metadata.path,
     screen |-> doc.metadata.screen,
     content |-> Take(doc.page_content, SNIPPET_LIMIT)]

\* a bundle whose accessibility_ids are the metadata strings as they stand
BundleOf_whole_strings(docs) ==
    LET with_ids == {k \in 1..Len(docs) :
                        /\ HasKey(docs[k].metadata, "accessibility_ids")
                        /\ Len(docs[k].metadata.accessibility_ids) > 0}
        accessibility_ids == {docs[k].metadata.accessibility_ids : k \in with_ids}
        screens == {docs[k].metadata.screen : k \in
                        {j \in 1..Len(docs) :
                            /\ HasKey(docs[j].metadata, "screen")
                            /\ Len(docs[j].metadata.screen) > 0}}
        allowed == SelectSeq(docs, LAMBDA d : d.metadata.kind \in SNIPPET_KINDS)
        code_snippets == [k \in 1..Len(allowed) |-> Snippet(allowed[k])]
    IN  Bundle(SortedSeq(accessibility_ids), SortedSeq(screens),
               Take(code_snippets, SNIPPETS_LIMIT), Len(docs), None)

\* the body of the try block of query_rag for the documents of the search
BundleOf(docs) ==
    LET with_ids == {k \in 1..Len(docs) :
                        /\ HasKey(docs[k].metadata, "accessibility_ids")
                        /\ Len(docs[k].metadata.accessibility_ids) > 0}
        accessibility_ids ==
            UNION {Range(split(docs[k].metadata.accessibility_ids, "|")) : k \in with_ids}
        screens == {docs[k].metadata.screen : k \in
                        {j \in 1..Len(docs) :
                            /\ HasKey(docs[j].metadata, "screen")
                            /\ Len(docs[j].metadata.screen) > 0}}
        allowed == SelectSeq(docs, LAMBDA d : d.metadata.kind \in SNIPPET_KINDS)
        code_snippets == [k \in 1..Len(allowed) |-> Snippet(allowed[k])]
    IN  Bundle(SortedSeq(accessibility_ids), SortedSeq(screens),
               Take(code_snippets, SNIPPETS_LIMIT), Len(docs), None)

\* a query_rag that lets the exception of the store through
query_rag_propagating(k, handle, behaviour) ==
    LET top_k == IF k = None THEN RAG_TOP_K ELSE k[1]
        vs == get_vectorstore(handle, behaviour)
    IN  IF vs.raised
        THEN [raised |-> TRUE, bundle |-> Bundle(<<>>, <<>>, <<>>, 0, None),
              handle |-> vs.handle, constructions |-> vs.constructions, searches |-> 0]
        ELSE IF ~behaviour.search_ok
        THEN [raised |-> TRUE, bundle |-> Bundle(<<>>, <<>>, <<>>, 0, None),
              handle |-> vs.handle, constructions |-> vs.constructions, searches |-> 1]
        ELSE [raised |-> FALSE, bundle |-> BundleOf(Take(behaviour.ranked, top_k)),
              handle |-> vs.handle, constructions |-> vs.constructions, searches |-> 1]

\* query_rag(test_description, k): the bundle, the handle the module holds
\* afterwards, and the constructions and searches the call made
query_rag(k, handle, behaviour) ==
    LET top_k == IF k = None THEN RAG_TOP_K ELSE k[1]
        vs == get_vectorstore(handle, behaviour)
        failed == Bundle(<<>>, <<>>, <<>>, 0, Some(behaviour.message))
    IN  IF vs.raised
        THEN [raised |-> FALSE, bundle |-> failed,
              handle |-> vs.handle, constructions |-> vs.constructions, searches |-> 0]
        ELSE IF ~behaviour.search_ok
        THEN [raised |-> FALSE, bundle |-> failed,
              handle |-> vs.handle, constructions |-> vs.constructions, searches |-> 1]
        ELSE [raised |-> FALSE, bundle |-> BundleOf(Take(behaviour.ranked, top_k)),
              handle |-> vs.handle, constructions |-> vs.constructions, searches |-> 1]

-----------------------------------------------------------------------------
(* agents/test_generator.py and main.py                                    *)

TestGenerationRequest(test_description, test_type, app_context, class_name) ==
    [test_description |-> test_description, test_type |-> test_type,
     app_context |-> app_context, class_name |-> class_name,
     include_comments |-> TRUE]

\* What the LLM does when it is invoked: it answers with a text, or the call
\* raises an exception of a class with a message
Answers(content) == [raises |-> "none", content |-> content, message |-> <<>>]
Raises(class, message) == [raises |-> class, content |-> <<>>, message |-> message]

TEST_TYPES == {<<"u","n","i","t">>, <<"u","i">>}
TEST_TYPE_ERROR == <<"t","e","s","t","_","t","y","p","e"," ","m","u","s","t"," ","b","e"," ","'","u","n","i","t","'"," ","o","r"," ","'","u","i","'">>

NoResponse ==
    [swift_code |-> <<>>, test_type |-> <<>>, class_name |-> <<>>,
     metadata |-> <<>>]

\* the metadata of a response: a key that is absent is None
Metadata(has_context, context_provided, contract_validation) ==
    [provider |-> "langchain_anthropic", has_context |-> has_context,
     context_provided |-> context_provided,
     contract_validation |-> contract_validation,
     rag_enabled |-> None, rag_context |-> None, rag_error |-> None]

\* the validation result of TestGenerator.run for the checks of the validator
ValidationResults(checks) ==
    [checks |-> checks,
     all_passed |-> \A k \in 1..Len(CHECKS) : checks[CHECKS[k]],
     failed_checks |-> SelectSeq(CHECKS, LAMBDA name : ~checks[name])]

\* What a call of TestGenerator.run does: the class of the exception it
\* raises ("none" when it returns), the message, the response, and the number
\* of invocations of the LLM
RunResult(raised, message, response, llm_calls) ==
    [raised |-> raised, message |-> message, response |-> response,
     llm_calls |-> llm_calls]

\* the response TestGenerator.run makes of the answer of the LLM once the
\* fences are stripped
ResponseOf(request, test_type, swift_code) ==
    [swift_code |-> swift_code, test_type |-> test_type,
     class_name |->
        extract_class_name(swift_code,
            IF Truthy(request.class_name) THEN request.class_name[1]
            ELSE IF test_type = <<"u","n","i","t">> THEN <<"G","e","n","e","r","a","t","e","d","U","n","i","t","T","e","s","t","s">>
            ELSE <<"G","e","n","e","r","a","t","e","d","U","I","T","e","s","t","s">>),
     metadata |->
        Metadata(request.app_context # None,
                 Len(build_context_section(request.app_context)) > 0,
                 IF test_type = <<"u","i">>
                 THEN Some(ValidationResults(validate_xcuitest_contract(swift_code)))
                 ELSE None)]

\* a generator that takes every unrecognized test type for a UI test
TestGenerator_run_defaulting(request, llm) ==
    LET normal == strip(lower(request.test_type))
        test_type == IF normal \in TEST_TYPES THEN normal ELSE <<"u","i">>
    IN  IF llm.raises # "none"
        THEN RunResult(llm.raises, llm.message, NoResponse, 1)
        ELSE RunResult("none", <<>>,
                ResponseOf(request, test_type, strip_code_fences(llm.content)), 1)

\* TestGenerator.run(request) with the LLM behaving as llm
TestGenerator_run(request, llm) ==
    LET test_type == strip(lower(request.test_type))
    IN  IF test_type \notin TEST_TYPES
        THEN RunResult("ValueError", TEST_TYPE_ERROR, NoResponse, 0)
        ELSE IF llm.raises # "none"
        THEN RunResult(llm.raises, llm.message, NoResponse, 1)
        ELSE RunResult("none", <<>>,
                ResponseOf(request, test_type, strip_code_fences(llm.content)), 1)

\* What a call of an endpoint does: the HTTP status, the detail of the error
\* or the response, the number of invocations of the LLM, the handle of the
\* store afterwards, and the constructions and searches of the store
Reply(status, detail, response, llm_calls, handle, constructions, searches) ==
    [status |-> status, detail |-> detail, response |-> response,
     llm_calls |-> llm_calls, handle |-> handle,
     constructions |-> constructions, searches |-> searches]

\* POST /generate-test
generate_test(request, llm, handle) ==
    LET Answer(r) ==
            IF r.raised = "none"
            THEN Reply(200, <<>>, r.response, r.llm_calls, handle, 0, 0)
            ELSE IF r.raised = "ValueError"
            THEN Reply(400, r.message, NoResponse, r.llm_calls, handle, 0, 0)
            ELSE Reply(500, <<"E","r","r","o","r"," ","g","e","n","e","r","a","t","i","n","g"," ","t","e","s","t",":"," ">> \o r.message,
                       NoResponse, r.llm_calls, handle, 0, 0)
    IN  Answer(TestGenerator_run(request, llm))

RAGTestGenerationRequest(test_description, test_type, class_name, rag_top_k) ==
    [test_description |-> test_description, test_type |-> test_type,
     class_name |-> class_name, include_comments |-> TRUE,
     rag_top_k |-> rag_top_k]

\* the text generate_test_with_rag makes of the snippets
SnippetsText(code_snippets) ==
    join(<<"\n", "\n">>, [k \in 1..Len(code_snippets) |->
        <<"/", "/", " ">> \o CharsOf[code_snippets[k].kind] \o <<" ","f","r","o","m"," ">>
        \o code_snippets[k].path \o <<"\n">> \o code_snippets[k].content])

\* the AppContext generate_test_with_rag builds of the bundle
RagAppContext(rag_context) ==
    LET Context(code_snippets_text) ==
            Some([NoContext EXCEPT
                !.app_name = Some(<<"S","a","m","p","l","e","A","p","p">>),
                !.screens = Some(rag_context.screens),
                !.accessibility_ids = Some(rag_context.accessibility_ids),
                !.source_code_snippets =
                    IF Len(code_snippets_text) > 0 THEN Some(code_snippets_text)
                    ELSE None])
    IN  Context(SnippetsText(rag_context.code_snippets))

\* the metadata generate_test_with_rag adds to that of the response
RagMetadata(metadata, rag_context) ==
    [metadata EXCEPT
        !.rag_enabled = Some(TRUE),
        !.rag_context = Some(
            [accessibility_ids_found |-> Len(rag_context.accessibility_ids),
             screens_found |-> Len(rag_context.screens),
             code_snippets_used |-> Len(rag_context.code_snippets),
             total_docs_retrieved |-> rag_context.total_docs_retrieved]),
        !.rag_error = rag_context.error]

\* an endpoint that gives up when the bundle carries the error of the store
GenerateWithContext_aborting(request, test_type, llm, rag) ==
    LET Merged(reply) ==
            IF reply.status # 200
            THEN Reply(reply.status, reply.detail, NoResponse, reply.llm_calls,
                       rag.handle, rag.constructions, rag.searches)
            ELSE Reply(200, <<>>,
                       [reply.response EXCEPT
                           !.metadata = RagMetadata(@, rag.bundle)],
                       reply.llm_calls, rag.handle, rag.constructions, rag.searches)
    IN  IF rag.bundle.error # None
        THEN Reply(500, <<"E","r","r","o","r"," ","g","e","n","e","r","a","t","i","n","g"," ","t","e","s","t"," ","w","i","t","h"," ","R","A","G",":"," ">> \o rag.bundle.error[1],
                   NoResponse, 0, rag.handle, rag.constructions, rag.searches)
        ELSE Merged(generate_test(
                TestGenerationRequest(request.test_description, test_type,
                                      RagAppContext(rag.bundle), request.class_name),
                llm, rag.handle))

\* generate_test_with_rag once the bundle is retrieved: the wrapped request
\* goes to generate_test
GenerateWithContext(request, test_type, llm, rag) ==
    LET Merged(reply) ==
            IF reply.status # 200
            THEN Reply(reply.status, reply.detail, NoResponse, reply.llm_calls,
                       rag.handle, rag.constructions, rag.searches)
            ELSE Reply(200, <<>>,
                       [reply.response EXCEPT
                           !.metadata = RagMetadata(@, rag.bundle)],
                       reply.llm_calls, rag.handle, rag.constructions, rag.searches)
    IN  Merged(generate_test(
            TestGenerationRequest(request.test_description, test_type,
                                  RagAppContext(rag.bundle), request.class_name),
            llm, rag.handle))

\* POST /generate-test-with-rag
generate_test_with_rag(request, llm, handle, behaviour) ==
    LET test_type == strip(lower(request.test_type))
    IN  IF test_type \notin TEST_TYPES
        THEN Reply(400, TEST_TYPE_ERROR, NoResponse, 0, handle, 0, 0)
        ELSE GenerateWithContext(request, test_type, llm,
                query_rag(request.rag_top_k, handle, behaviour))

DESCRIPTION_LIMIT == 100

\* str(e) of the HTTPException that generate_test raises: the status code,
\* a colon and the detail
HTTPExceptionStr(status_code, detail) ==
    IntStr(status_code) \o <<":", " ">> \o detail

\* a batch that stops at the first item that fails
RECURSIVE BatchLoop_aborting(_, _, _, _, _)
BatchLoop_aborting(requests, llms, handle, idx, acc) ==
    LET Item(req, reply) ==
            IF reply.status = 200
            THEN BatchLoop_aborting(requests, llms, handle, idx + 1,
                    [acc EXCEPT !.results = Append(@, reply.response),
                                !.llm_calls = @ + reply.llm_calls])
            ELSE [acc EXCEPT !.errors = Append(@,
                        [index |-> idx - 1,
                         error |-> HTTPExceptionStr(reply.status, reply.detail),
                         description |-> Take(req.test_description, DESCRIPTION_LIMIT)]),
                                !.llm_calls = @ + reply.llm_calls]
    IN  IF idx > Len(requests) THEN acc
        ELSE Item(requests[idx], generate_test(requests[idx], llms[idx], handle))

\* the loop of generate_tests_batch from item idx on; llms[idx] is what the LLM
\* does when item idx invokes it
RECURSIVE BatchLoop(_, _, _, _, _)
BatchLoop(requests, llms, handle, idx, acc) ==
    LET Item(req, reply) ==
            IF reply.status = 200
            THEN BatchLoop(requests, llms, handle, idx + 1,
                    [acc EXCEPT !.results = Append(@, reply.response),
                                !.llm_calls = @ + reply.llm_calls])
            ELSE BatchLoop(requests, llms, handle, idx + 1,
                    [acc EXCEPT !.errors = Append(@,
                        [index |-> idx - 1,
                         error |-> HTTPExceptionStr(reply.status, reply.detail),
                         description |-> Take(req.test_description, DESCRIPTION_LIMIT)]),
                                !.llm_calls = @ + reply.llm_calls])
    IN  IF idx > Len(requests) THEN acc
        ELSE Item(requests[idx], generate_test(requests[idx], llms[idx], handle))

\* POST /generate-tests-batch
generate_tests_batch(requests, llms, handle) ==
    LET Summary(done) ==
            [generated |-> Len(done.results), failed |-> Len(done.errors),
             results |-> done.results, errors |-> done.errors,
             llm_calls |-> done.llm_calls]
    IN  Summary(BatchLoop(requests, llms, handle, 1,
                    [results |-> <<>>, errors |-> <<>>, llm_calls |-> 0]))

-----------------------------------------------------------------------------
(* streamlit-ui/app.py                                                     *)

PROJECT_ROOT == <<"/","U","s","e","r","s","/","m","h","e","r","y","e","r","z","n","k","a","n","y","a","n","/","P","r","o","j","e","c","t","s","/","i","O","S","-","t","e","s","t","-","a","u","t","o","m","a","t","o","r">>
TEST_FILE == <<"/","U","s","e","r","s","/","m","h","e","r","y","e","r","z","n","k","a","n","y","a","n","/","P","r","o","j","e","c","t","s","/","S","h","e","l","f","P","l","a","y","e","r","/","S","h","e","l","f","P","l","a","y","e","r","U","I","T","e","s","t","s","/","L","L","M","G","e","n","e","r","a","t","e","d","T","e","s","t",".","s","w","i","f","t">>

upper(t) ==
    [i \in 1..Len(t) |->
        IF t[i] \in Range(LowerAlpha)
        THEN UpperAlpha[CHOOSE k \in 1..Len(LowerAlpha) : LowerAlpha[k] = t[i]]
        ELSE t[i]]

\* word.capitalize()
capitalize(word) ==
    IF word = <<>> THEN <<>>
    ELSE upper(SubSeq(word, 1, 1)) \o lower(SubSeq(word, 2, Len(word)))

\* re.findall(r'\w+', name): the maximal runs of word characters
Words(name) ==
    LET starts == SortedInts({i \in 1..Len(name) :
                                 IsWordAt(name, i) /\ ~IsWordAt(name, i - 1)})
    IN  [k \in 1..Len(starts) |->
            SubSeq(name, starts[k], FirstNotIn(name, starts[k], WordChars) - 1)]

\* sanitize_class_name(name)
sanitize_class_name(name) ==
    Concat([k \in 1..Len(Words(name)) |-> capitalize(Words(name)[k])])
    \o <<"T","e","s","t">>

\* What a call of subprocess.run does: the command exits with a return code
\* and its output, the timeout expires, or the call raises another exception
Completed(returncode, stdout, stderr) ==
    [kind |-> "completed", returncode |-> returncode, stdout |-> stdout,
     stderr |-> stderr, message |-> <<>>]
TimeoutExpired ==
    [kind |-> "timeout", returncode |-> 0, stdout |-> <<>>, stderr |-> <<>>,
     message |-> <<>>]
RaisesError(message) ==
    [kind |-> "raises", returncode |-> 0, stdout |-> <<>>, stderr |-> <<>>,
     message |-> message]

BUILD_TIMED_OUT == <<"B","u","i","l","d"," ","t","i","m","e","d"," ","o","u","t"," ","a","f","t","e","r"," ","3"," ","m","i","n","u","t","e","s">>
BUILD_FAILED == <<"F","a","i","l","e","d"," ","t","o"," ","b","u","i","l","d",":"," ">>

\* build_for_testing(simulator_id, clean_build) when xcodebuild does as
\* outcome says
build_for_testing(outcome) ==
    CASE outcome.kind = "completed" ->
            [success |-> outcome.returncode = 0,
             output |-> outcome.stdout \o outcome.stderr]
      [] outcome.kind = "timeout" ->
            [success |-> FALSE, output |-> BUILD_TIMED_OUT]
      [] OTHER ->
            [success |-> FALSE, output |-> BUILD_FAILED \o outcome.message]

TEST_SUCCEEDED == <<"T","E","S","T"," ","S","U","C","C","E","E","D","E","D">>
TEST_TIMED_OUT == <<"T","e","s","t"," ","e","x","e","c","u","t","i","o","n"," ","t","i","m","e","d"," ","o","u","t"," ","a","f","t","e","r"," ","5"," ","m","i","n","u","t","e","s">>
RUN_FAILED == <<"F","a","i","l","e","d"," ","t","o"," ","r","u","n"," ","t","e","s","t",":"," ">>

\* What happens around the test command of run_xcode_test: starting the
\* recorder (Popen), bringing the simulator to the front (subprocess.run with
\* a timeout), the test command, the steps before the interrupt is sent, and
\* the wait for the recorder to exit. stop names the st.info call, if any, at
\* which the script run is stopped because the session has a new widget
\* event: "starting" (line 249), "running" (line 279), "stopping" (line 293)
RunEnv(timestamp, popen, activate, test, stopping, wait, stop) ==
    [timestamp |-> timestamp, popen |-> popen, activate |-> activate,
     test |-> test, stopping |-> stopping, wait |-> wait, stop |-> stop]

\* run_xcode_test returns the triple (success, output, recording_path); with
\* it, what was done to the recording process: whether it was started and the
\* signals it was sent, in order. The other way out of the function is
\* StoppedInside, which raises.
RunResult3(success, output, recording_path, started, signals) ==
    [success |-> success, output |-> output, recording_path |-> recording_path,
     started |-> started, signals |-> signals, raised |-> FALSE]

\* run_xcode_test left by the exception with which an st call stops the
\* script run: it derives from BaseException, so neither handler catches it
StoppedInside(recording_path, started) ==
    [success |-> FALSE, output |-> <<>>, recording_path |-> recording_path,
     started |-> started, signals |-> <<>>, raised |-> TRUE]

\* run_xcode_test(class_name, swift_code, simulator_id, record_video) in the
\* surroundings env
run_xcode_test(class_name, record_video, env) ==
    LET recording_path ==
            IF record_video
            THEN Some(PROJECT_ROOT \o <<"/","t","e","s","t","_","r","e","c","o","r","d","i","n","g","_">> \o class_name
                      \o <<"_">> \o env.timestamp \o <<".","m","p","4">>)
            ELSE None
        Failed(message, started) ==
            RunResult3(FALSE, RUN_FAILED \o message, recording_path, started,
                       IF started THEN <<"SIGKILL">> ELSE <<>>)
        TimedOut(started) ==
            RunResult3(FALSE, TEST_TIMED_OUT, recording_path, started,
                       IF started THEN <<"SIGKILL">> ELSE <<>>)
        Stopped(result, started) ==
            LET output == result.stdout \o result.stderr
            IN  RunResult3(result.returncode = 0 /\ Contains(output, TEST_SUCCEEDED),
                           output, recording_path, started,
                           IF ~started THEN <<>>
                           ELSE IF env.wait = "timeout" THEN <<"SIGINT", "SIGKILL">>
                           ELSE <<"SIGINT">>)
        Tested(started) ==
            CASE env.stop = "running" -> StoppedInside(recording_path, started)
              [] env.test.kind = "timeout" -> TimedOut(started)
              [] env.test.kind = "raises" -> Failed(env.test.message, started)
              [] OTHER ->
                    IF started /\ env.stop = "stopping"
                    THEN StoppedInside(recording_path, started)
                    ELSE IF started /\ env.stopping.kind = "raises"
                    THEN Failed(env.stopping.message, started)
                    ELSE Stopped(env.test, started)
    IN  IF ~record_video THEN Tested(FALSE)
        ELSE IF env.stop = "starting" THEN StoppedInside(recording_path, FALSE)
        ELSE IF env.popen.kind = "raises" THEN Failed(env.popen.message, FALSE)
        ELSE IF env.activate.kind = "timeout" THEN TimedOut(TRUE)
        ELSE IF env.activate.kind = "raises" THEN Failed(env.activate.message, TRUE)
        ELSE Tested(TRUE)

\* summary["passed"] of extract_test_summary(output)
extract_test_summary_passed(output) == Contains(output, TEST_SUCCEEDED)

HEADING_PASSED == <<"#","#","#"," ","T","e","s","t"," ","C","o","m","p","l","e","t","e","d"," ","S","u","c","c","e","s","s","f","u","l","l","y">>
HEADING_FAILED == <<"#","#","#"," ","T","e","s","t"," ","F","a","i","l","e","d">>

\* the first line of generate_human_summary(description, summary, output)
generate_human_summary_heading(passed) ==
    IF passed THEN HEADING_PASSED ELSE HEADING_FAILED

\* a flow that goes on to the test although the build failed
AfterStage_ignoring_build(stage, succeeded, run_btn) ==
    CASE stage = "generate" -> IF succeeded THEN "save" ELSE "done"
      [] stage = "save" -> IF succeeded THEN "keep" ELSE "done"
      [] stage = "keep" -> IF run_btn THEN "locate" ELSE "done"
      [] stage = "locate" -> IF succeeded THEN "boot" ELSE "done"
      [] stage = "boot" -> IF succeeded THEN "build" ELSE "done"
      [] stage = "build" -> "run"
      [] stage = "run" -> IF succeeded THEN "status" ELSE "stopped"
      [] stage = "status" -> "summary"
      [] stage = "summary" -> "record"
      [] OTHER -> "done"

\* The nest of conditionals of the New Test tab: where the script goes after
\* a stage, given whether the stage succeeded and which button was clicked.
\* "keep" is the assignment of current_test, "status" and "summary" the
\* display of the result, "record" the insertion into the history; the run
\* stage does not succeed only when the script run is stopped inside it.
AfterStage(stage, succeeded, run_btn) ==
    CASE stage = "generate" -> IF succeeded THEN "save" ELSE "done"
      [] stage = "save" -> IF succeeded THEN "keep" ELSE "done"
      [] stage = "keep" -> IF run_btn THEN "locate" ELSE "done"
      [] stage = "locate" -> IF succeeded THEN "boot" ELSE "done"
      [] stage = "boot" -> IF succeeded THEN "build" ELSE "done"
      [] stage = "build" -> IF succeeded THEN "run" ELSE "done"
      [] stage = "run" -> IF succeeded THEN "status" ELSE "stopped"
      [] stage = "status" -> "summary"
      [] stage = "summary" -> "record"
      [] OTHER -> "done"
-----------------------------------------------------------------------------
(* The state of each part of the system before it is exercised             *)

NoBlocks == [views |-> <<>>, vcs |-> <<>>]

ChunkIdle ==
    /\ f_text = <<>>
    /\ f_path = <<>>
    /\ f_blocks = NoBlocks
    /\ f_chunks = <<>>
    /\ f_findings = <<>>
    /\ f_phase = "idle"

NoArgs == [app_dir_exists |-> FALSE, fail_if_missing_ids |-> FALSE]
NoRun ==
    [ran |-> FALSE, args |-> NoArgs, tree |-> <<>>, before |-> <<>>,
     result |-> IngestResult(0, FALSE, <<>>, FALSE, FALSE, <<>>, 0, 0, 0)]

IngestIdle ==
    /\ app_tree = <<>>
    /\ collection = <<>>
    /\ rejects_duplicate_ids = FALSE
    /\ runs = 0
    /\ last_run = NoRun
    /\ prev_run = NoRun

NoCall == [endpoint |-> "none"]

ApiIdle ==
    /\ pending = None
    /\ vectorstore = None
    /\ last_call = NoCall


\* no thread calls get_vectorstore
ThreadIdle ==
    /\ t_pc = <<>>
    /\ t_local = <<>>
    /\ t_got = <<>>
    /\ constructed = {}

\* the dashboard before any click
NoClick == [button |-> "none", pc |-> "idle"]
UiIdle ==
    /\ test_history = <<>>
    /\ current_test = None
    /\ clicks = 0
    /\ last_click = NoClick
-----------------------------------------------------------------------------
(* The chunk builder and the auditor applied to one file                   *)

\* the pieces of source text the input files are made of
TOK_VIEW == <<"\n","s","t","r","u","c","t"," ","V",":"," ","V","i","e","w"," ","{">>
TOK_VC == <<"\n","c","l","a","s","s"," ","C",":"," ","U","I","V","i","e","w","C","o","n","t","r","o","l","l","e","r"," ","{">>
TOK_NESTED == <<" ","{"," ","y"," ","{"," ","z"," ","}"," ","}">>
TOK_CLOSE == <<"}">>
TOK_BUTTON == <<" ","B","u","t","t","o","n","(","\"","G","o","\"",")">>
TOK_UIBUTTON == <<" ","U","I","B","u","t","t","o","n","(",")">>
TOK_ID_CALL == <<".","a","c","c","e","s","s","i","b","i","l","i","t","y","I","d","e","n","t","i","f","i","e","r","(","\"","a","\"",")">>
TOK_ID_ASSIGN == <<".","a","c","c","e","s","s","i","b","i","l","i","t","y","I","d","e","n","t","i","f","i","e","r"," ","="," ","\"","b","\"">>
TOK_NAV == <<"\n",".","s","h","e","e","t","(","x",")">>
TOK_BLANK == <<" ","\n">>
PATH_A == <<"A",".","s","w","i","f","t">>

TOKENS == {TOK_VIEW, TOK_VC, TOK_NESTED, TOK_CLOSE, TOK_BUTTON, TOK_UIBUTTON,
           TOK_ID_CALL, TOK_ID_ASSIGN, TOK_NAV, TOK_BLANK}

\* the largest number of pieces in an input file
MaxTokens == 3

TokenTexts ==
    {Concat(ss) : ss \in UNION {[1..n -> TOKENS] : n \in 0..MaxTokens}}

\* files of one long word, with and without white space around it, whose
\* trimmed length is just below, at and just above RAW_LIMIT
Filler(n) == [i \in 1..n |-> "x"]
FillerTexts ==
    {pre \o Filler(n) \o post :
        n \in {RAW_LIMIT - 1, RAW_LIMIT, RAW_LIMIT + 1},
        pre \in {<<>>, <<" ">>}, post \in {<<>>, <<"\n">>}}

\* files of several screens: a view controller before two views, identifiers
\* inside and outside the blocks (one of them twice), navigation lines inside
\* and outside the blocks
TOK_VIEW_W == <<"\n","s","t","r","u","c","t"," ","W",":"," ","V","i","e","w"," ","{">>
TOK_ID_CALL_Z == <<".","a","c","c","e","s","s","i","b","i","l","i","t","y","I","d","e","n","t","i","f","i","e","r","(","\"","Z","\"",")">>
TOK_NAV_INDENTED == <<"\n"," "," ","p","r","e","s","e","n","t","(","y",")"," "," ">>
T_SCREENS ==
    TOK_VC \o TOK_UIBUTTON \o TOK_ID_ASSIGN \o TOK_CLOSE
    \o TOK_VIEW \o TOK_BUTTON \o TOK_ID_CALL \o TOK_NAV \o TOK_CLOSE
    \o TOK_VIEW_W \o TOK_ID_CALL_Z \o TOK_CLOSE
    \o TOK_NAV_INDENTED \o <<"\n">> \o TOK_ID_CALL
ScreenTexts ==
    {T_SCREENS,
     TOK_VIEW \o TOK_CLOSE \o TOK_VIEW_W \o TOK_BUTTON \o TOK_CLOSE \o TOK_VC \o TOK_CLOSE,
     TOK_VC \o TOK_CLOSE \o TOK_VIEW \o TOK_CLOSE
        \o TOK_ID_CALL_Z \o TOK_ID_CALL \o TOK_ID_ASSIGN \o TOK_ID_CALL,
     TOK_VIEW \o TOK_NAV \o TOK_CLOSE \o TOK_NAV_INDENTED \o TOK_NAV,
     TOK_VIEW \o TOK_BUTTON \o TOK_ID_ASSIGN \o TOK_CLOSE
        \o TOK_VIEW_W \o TOK_BUTTON \o TOK_ID_CALL \o TOK_CLOSE
        \o TOK_VC \o TOK_UIBUTTON \o TOK_ID_CALL \o TOK_CLOSE}

\* files of n numbered navigation lines, each indented and each followed by a
\* line that matches no pattern, for n just below, at and just above
\* NAV_LINES_LIMIT
NavLines(n) ==
    Concat([k \in 1..n |->
        <<"\n","\t",".","s","h","e","e","t","(">> \o IntStr(k) \o <<")">>
        \o <<"\n","l","e","t"," ","n"," ","="," ">> \o IntStr(k)])
NavTexts ==
    {NavLines(n) : n \in {NAV_LINES_LIMIT - 1, NAV_LINES_LIMIT, NAV_LINES_LIMIT + 1}}

\* files whose identifiers strain the metadata string: an identifier that
\* holds the delimiter, and a view of n identifiers for n at and just above
\* META_LIST_LIMIT
TOK_ID_CALL_BAR == <<".","a","c","c","e","s","s","i","b","i","l","i","t","y","I","d","e","n","t","i","f","i","e","r","(","\"","a","|","b","\"",")">>
Marker(k) ==
    <<"\n",".","a","c","c","e","s","s","i","b","i","l","i","t","y","I","d","e","n","t","i","f","i","e","r","(","\"","k">>
    \o IntStr(99 + k) \o <<"\"",")">>
Markers(n) ==
    [i \in 1..(n * Len(Marker(1))) |->
        Marker(((i - 1) \div Len(Marker(1))) + 1)[((i - 1) % Len(Marker(1))) + 1]]
IdTexts ==
    {TOK_VIEW \o TOK_BUTTON \o TOK_ID_CALL_BAR \o TOK_CLOSE,
     TOK_VC \o TOK_ID_CALL_Z \o TOK_CLOSE \o TOK_ID_CALL_BAR}
    \cup {TOK_VIEW \o Markers(n) \o TOK_CLOSE :
             n \in {META_LIST_LIMIT, META_LIST_LIMIT + 1}}

ChunkInit ==
    /\ f_text \in TokenTexts \cup FillerTexts \cup ScreenTexts \cup NavTexts \cup IdTexts
    /\ f_path = PATH_A
    /\ f_blocks = NoBlocks
    /\ f_chunks = <<>>
    /\ f_findings = <<>>
    /\ f_phase = "read"
    /\ IngestIdle
    /\ ApiIdle
    /\ ThreadIdle
    /\ UiIdle

\* build_chunks_for_file on the file, with the blocks it extracts on the way
BuildChunks ==
    /\ f_phase = "read"
    /\ f_blocks' = [views |-> extract_blocks(f_text, "SWIFTUI_VIEW_START_RE"),
                    vcs |-> extract_blocks(f_text, "UIKIT_VC_START_RE")]
    /\ f_chunks' = build_chunks_for_file(f_text, f_path)
    /\ f_phase' = "built"
    /\ UNCHANGED <<f_text, f_path, f_findings>>
    /\ UNCHANGED <<ingestVars, apiVars, threadVars, uiVars>>

\* audit_accessibility on the chunks of the file
Audit ==
    /\ f_phase = "built"
    /\ f_findings' = audit_accessibility(f_chunks).findings
    /\ f_phase' = "audited"
    /\ UNCHANGED <<f_text, f_path, f_blocks, f_chunks>>
    /\ UNCHANGED <<ingestVars, apiVars, threadVars, uiVars>>

ChunkNext == BuildChunks \/ Audit

SpecChunk == ChunkInit /\ [][ChunkNext]_vars

-----------------------------------------------------------------------------
(* Runs of cmd_ingest                                                      *)

T_FLAGGED == TOK_VIEW \o TOK_BUTTON \o TOK_CLOSE
T_CLEAN == TOK_VIEW \o TOK_BUTTON \o TOK_ID_CALL \o TOK_CLOSE
T_TWICE == T_FLAGGED \o T_FLAGGED
T_RAW == <<"l","e","t"," ","x">>
T_CONTROLLER == TOK_VC \o TOK_UIBUTTON \o TOK_CLOSE

\* the contents a file of the tree may have; an unreadable file has none
Contents ==
    {[readable |-> TRUE, text |-> t] :
        t \in {T_FLAGGED, T_CLEAN, T_TWICE, T_RAW, T_CONTROLLER, TOK_BLANK}}
    \cup {[readable |-> FALSE, text |-> <<>>]}

\* the places of the tree, in the order the walk visits them: a file of the
\* root, a file of a directory, a file of a pruned directory
PLACES ==
    << [dirs |-> <<>>, name |-> NAME_A],
       [dirs |-> <<DIR_UI>>, name |-> NAME_B],
       [dirs |-> <<DIR_PODS>>, name |-> NAME_C] >>

\* the trees: each place is empty or holds a file
RECURSIVE TreesFrom(_)
TreesFrom(k) ==
    IF k > Len(PLACES) THEN {<<>>}
    ELSE LET rest == TreesFrom(k + 1)
             here == {File(PLACES[k].dirs, PLACES[k].name, c.readable, c.text) :
                         c \in IF k = 3 THEN {[readable |-> TRUE, text |-> T_FLAGGED]}
                               ELSE IF k = 2
                               THEN {c \in Contents : c.text \in {T_CLEAN, T_CONTROLLER, T_RAW}}
                               ELSE Contents}
         IN  rest \cup {<<f>> \o r : f \in here, r \in rest}
Trees == TreesFrom(1)

\* Two larger trees for the walk.  The first holds files with and without the
\* suffix, a file whose own name starts with a dot, and directories that are
\* allowed, denied, hidden, denied below an allowed one, allowed below a
\* denied one, and named almost like a denied one; the second holds no file
\* the walk yields
DIR_GIT == <<".","g","i","t">>
DIR_CACHE == <<".","c","a","c","h","e">>
DIR_BUILD == <<"B","u","i","l","d">>
DIR_BUILD_LOWER == <<"b","u","i","l","d">>
DIR_PODSX == <<"P","o","d","s","x">>
DIR_SUB == <<"S","u","b">>
NAME_HIDDEN == <<".","h","i","d","d","e","n",".","s","w","i","f","t">>
NAME_NOTES == <<"n","o","t","e","s",".","t","x","t">>
NAME_BACKUP == <<"A",".","s","w","i","f","t",".","b","a","k">>
NAME_UPPER == <<"A",".","S","W","I","F","T">>
SCAN_TREE ==
    << File(<<>>, NAME_A, TRUE, T_RAW),
       File(<<>>, NAME_HIDDEN, TRUE, T_RAW),
       File(<<>>, NAME_NOTES, TRUE, T_FLAGGED),
       File(<<>>, NAME_BACKUP, TRUE, T_FLAGGED),
       File(<<>>, NAME_UPPER, TRUE, T_FLAGGED),
       File(<<DIR_UI>>, NAME_B, TRUE, T_CLEAN),
       File(<<DIR_UI, DIR_BUILD>>, NAME_C, TRUE, T_FLAGGED),
       File(<<DIR_UI, DIR_SUB>>, NAME_C, TRUE, T_CONTROLLER),
       File(<<DIR_PODS, DIR_UI>>, NAME_B, TRUE, T_FLAGGED),
       File(<<DIR_GIT>>, NAME_A, TRUE, T_FLAGGED),
       File(<<DIR_CACHE>>, NAME_A, TRUE, T_FLAGGED),
       File(<<DIR_PODSX>>, NAME_A, TRUE, T_RAW),
       File(<<DIR_BUILD_LOWER>>, NAME_A, TRUE, T_RAW) >>
SCAN_TREE_EMPTY ==
    << File(<<>>, NAME_NOTES, TRUE, T_RAW),
       File(<<DIR_UI, DIR_BUILD>>, NAME_C, TRUE, T_RAW),
       File(<<DIR_CACHE>>, NAME_A, TRUE, T_RAW) >>
\* a tree whose second file cannot be read, whatever it holds
SCAN_TREE_UNREADABLE ==
    << File(<<>>, NAME_A, TRUE, T_CLEAN),
       File(<<DIR_UI>>, NAME_B, FALSE, T_FLAGGED),
       File(<<DIR_UI, DIR_SUB>>, NAME_C, TRUE, T_CONTROLLER) >>
ScanTrees == {SCAN_TREE, SCAN_TREE_EMPTY, SCAN_TREE_UNREADABLE}

MaxRuns == 2

IngestInit ==
    /\ app_tree \in Trees \cup ScanTrees
    /\ collection = <<>>
    /\ rejects_duplicate_ids \in BOOLEAN
    /\ runs = 0
    /\ last_run = NoRun
    /\ prev_run = NoRun
    /\ ChunkIdle
    /\ ApiIdle
    /\ ThreadIdle
    /\ UiIdle

\* one run of the ingest command
CmdIngest(args) ==
    /\ runs < MaxRuns
    /\ LET Ran(r) ==
               /\ collection' = r.store
               /\ last_run' = [ran |-> TRUE, args |-> args, tree |-> app_tree,
                               before |-> collection, result |-> r]
       IN  Ran(cmd_ingest(args, app_tree, collection, rejects_duplicate_ids))
    /\ prev_run' = last_run
    /\ runs' = runs + 1
    /\ UNCHANGED <<app_tree, rejects_duplicate_ids>>
    /\ UNCHANGED <<chunkVars, apiVars, threadVars, uiVars>>

\* the two versions of a file that is rewritten between two runs: the
\* accessibility identifier of its button is added or taken away
EDITS == {T_FLAGGED, T_CLEAN}

\* Between two runs the first file of the application directory is rewritten:
\* each run reads the files as they are at that moment
EditFile ==
    /\ last_run.ran
    /\ runs < MaxRuns
    /\ Len(app_tree) > 0
    /\ \E t \in EDITS :
            /\ app_tree[1].readable
            /\ app_tree[1].text \in EDITS \ {t}
            /\ app_tree' = [app_tree EXCEPT ![1].text = t]
    /\ UNCHANGED <<collection, rejects_duplicate_ids, runs, last_run, prev_run>>
    /\ UNCHANGED <<chunkVars, apiVars, threadVars, uiVars>>

RunCmdIngest ==
    \E e \in BOOLEAN, ff \in BOOLEAN :
        CmdIngest([app_dir_exists |-> e, fail_if_missing_ids |-> ff])

IngestNext ==
    \/ RunCmdIngest
    \/ EditFile

SpecIngest == IngestInit /\ [][IngestNext]_vars

-----------------------------------------------------------------------------
(* Calls of the generation service                                         *)

\* POST /generate-test with the LLM behaving as llm
GenerateTest(request, llm) ==
    LET Called(reply) ==
            /\ last_call' = [endpoint |-> "generate-test", request |-> request,
                             llm |-> llm, before |-> vectorstore, reply |-> reply]
            /\ vectorstore' = reply.handle
    IN  /\ Called(generate_test(request, llm, vectorstore))
        /\ UNCHANGED <<chunkVars, ingestVars, threadVars, uiVars>>

\* POST /generate-test-with-rag with the LLM and the store behaving as given
GenerateTestWithRag(request, llm, behaviour) ==
    LET Called(reply) ==
            /\ last_call' = [endpoint |-> "generate-test-with-rag",
                             request |-> request, llm |-> llm,
                             behaviour |-> behaviour, before |-> vectorstore,
                             reply |-> reply]
            /\ vectorstore' = reply.handle
    IN  /\ Called(generate_test_with_rag(request, llm, vectorstore, behaviour))
        /\ UNCHANGED <<chunkVars, ingestVars, threadVars, uiVars>>

\* POST /generate-tests-batch
GenerateTestsBatch(requests, llms) ==
    /\ last_call' = [endpoint |-> "generate-tests-batch", requests |-> requests,
                     llms |-> llms, before |-> vectorstore,
                     reply |-> generate_tests_batch(requests, llms, vectorstore)]
    /\ vectorstore' = vectorstore
    /\ UNCHANGED <<chunkVars, ingestVars, threadVars, uiVars>>

\* a call of query_rag
QueryRag(k, behaviour) ==
    LET Called(r) ==
            /\ last_call' = [endpoint |-> "query_rag", k |-> k,
                             behaviour |-> behaviour, before |-> vectorstore,
                             result |-> r]
            /\ vectorstore' = r.handle
    IN  /\ Called(query_rag(k, vectorstore, behaviour))
        /\ UNCHANGED <<chunkVars, ingestVars, threadVars, uiVars>>

\* ---- the inputs

TYPE_UI_SPACED == <<" ", "U", "I", "\n">>
TYPE_UNIT_CAPITAL == <<"U", "n", "i", "t">>
TestTypeInputs ==
    {<<"u","i">>, <<"u","n","i","t">>, TYPE_UI_SPACED, TYPE_UNIT_CAPITAL,
     <<"i","n","t","e","g","r","a","t","i","o","n">>, <<>>}

\* the pieces a generated test is made of, one for each text the validator
\* looks for
PIECES ==
    << <<"l","e","t"," ","a","p","p"," ","="," ","X","C","U","I","A","p","p","l","i","c","a","t","i","o","n","(",")","\n">>,
       <<"a","p","p",".","l","a","u","n","c","h","(",")","\n">>,
       <<"_"," ","="," ","b",".","w","a","i","t","F","o","r","E","x","i","s","t","e","n","c","e","(","t","i","m","e","o","u","t",":"," ","5",")","\n">>,
       <<"X","C","T","N","S","P","r","e","d","i","c","a","t","e","E","x","p","e","c","t","a","t","i","o","n","(","p",","," ","b",")","\n">>,
       <<"X","C","T","A","s","s","e","r","t","T","r","u","e","(","b",".","e","x","i","s","t","s",")","\n">>,
       <<"X","C","T","A","s","s","e","r","t","N","o","t","N","i","l","(","b",")","\n">>,
       <<"f","u","n","c"," ","s","e","t","U","p","W","i","t","h","E","r","r","o","r","(",")"," ","{","}","\n">>,
       <<"f","u","n","c"," ","t","e","a","r","D","o","w","n","W","i","t","h","E","r","r","o","r","(",")"," ","{","}","\n">> >>

\* the answer of the LLM that holds the pieces S, in a fence or not
CodeOf(S, fenced) ==
    (IF fenced THEN FENCE_SWIFT \o <<"\n">> ELSE <<>>)
    \o <<"f","i","n","a","l"," ","c","l","a","s","s"," ","L","o","g","i","n","T","e","s","t","s",":"," ","X","C","T","e","s","t","C","a","s","e"," ","{","\n">>
    \o Concat([k \in 1..Len(PIECES) |-> IF k \in S THEN PIECES[k] ELSE <<>>])
    \o <<"}", "\n">>
    \o (IF fenced THEN FENCE ELSE <<>>)

Codes == {CodeOf(S, fenced) : S \in SUBSET (1..Len(PIECES)), fenced \in BOOLEAN}
CODE_FULL == CodeOf(1..Len(PIECES), TRUE)

DESCRIPTION == <<"l","o","g","i","n"," ","w","o","r","k","s">>

\* the collection the service queries: the documents an ingestion run wrote
\* for a tree of three files
LONG_VIEW ==
    TOK_VIEW \o TOK_BUTTON \o TOK_ID_CALL \o TOK_ID_ASSIGN \o <<"\n">>
    \o Filler(SNIPPET_LIMIT)
    \o TOK_CLOSE
STORE_TREE ==
    << File(<<>>, NAME_A, TRUE, LONG_VIEW \o T_CLEAN \o TOK_NAV),
       File(<<DIR_UI>>, NAME_B, TRUE, T_FLAGGED \o TOK_ID_ASSIGN \o T_CONTROLLER),
       File(<<DIR_UI>>, NAME_C, TRUE, T_RAW) >>
STORE == IngestDocs(STORE_TREE)

\* the rankings of a search: a run of at most MaxDocs documents of the
\* collection
MaxDocs == 7
RankingsOf(store) ==
    {SubSeq(store, s, Min(s + n - 1, Len(store))) :
        s \in 1..Len(store), n \in 0..MaxDocs}
Rankings == RankingsOf(STORE)

STORE_DOWN == <<"c","o","u","l","d"," ","n","o","t"," ","c","o","n","n","e","c","t"," ","t","o"," ","t","h","e"," ","s","t","o","r","e">>
SEARCH_FAILED == <<"s","e","a","r","c","h"," ","f","a","i","l","e","d">>
Behaviours(rankings) ==
    {StoreBehaviour(TRUE, TRUE, <<>>, r) : r \in rankings}
    \cup {StoreBehaviour(FALSE, TRUE, STORE_DOWN, r) : r \in rankings}
    \cup {StoreBehaviour(TRUE, FALSE, SEARCH_FAILED, r) : r \in rankings}

LLM_OVERLOADED == <<"o","v","e","r","l","o","a","d","e","d">>
LLM_BAD_VALUE == <<"i","n","v","a","l","i","d"," ","v","a","l","u","e">>

\* ---- TestGenerator.run and /generate-test applied to one request

RunInit ==
    /\ pending \in
        {Some([request |-> TestGenerationRequest(DESCRIPTION, t, None, None),
               llm |-> Answers(c)]) :
            t \in {<<"u","i">>, <<"u","n","i","t">>, TYPE_UI_SPACED}, c \in Codes}
    /\ vectorstore = None
    /\ last_call = NoCall
    /\ ChunkIdle
    /\ IngestIdle
    /\ ThreadIdle
    /\ UiIdle

ServeGenerateTest ==
    /\ pending # None
    /\ GenerateTest(pending[1].request, pending[1].llm)
    /\ pending' = None

RunNext == ServeGenerateTest

SpecRun == RunInit /\ [][RunNext]_vars

\* ---- query_rag applied to one ranking

K_INPUTS == {None, Some(3), Some(MaxDocs)}

QueryInit ==
    /\ pending \in {Some([k |-> k, behaviour |-> b]) :
                        k \in K_INPUTS, b \in Behaviours(Rankings)}
    /\ vectorstore \in {None, Some("Chroma")}
    /\ last_call = NoCall
    /\ ChunkIdle
    /\ IngestIdle
    /\ ThreadIdle
    /\ UiIdle

ServeQueryRag ==
    /\ pending # None
    /\ QueryRag(pending[1].k, pending[1].behaviour)
    /\ pending' = None

QueryNext == ServeQueryRag

SpecQuery == QueryInit /\ [][QueryNext]_vars

\* ---- the endpoints called one after another

ApiLLMs ==
    {Answers(CODE_FULL), Raises("ValueError", LLM_BAD_VALUE),
     Raises("Exception", LLM_OVERLOADED)}
ApiContexts == {None, Some([NoContext EXCEPT !.app_name = Some(<<"S","a","m","p","l","e","A","p","p">>)])}
ApiRequests ==
    {TestGenerationRequest(DESCRIPTION, t, c, None) :
        t \in TestTypeInputs, c \in ApiContexts}
RagRequests ==
    {RAGTestGenerationRequest(DESCRIPTION, t, None, None) : t \in TestTypeInputs}
ApiBehaviours == Behaviours({SubSeq(STORE, 2, 4)})

MaxBatch == 2
\* the items of a batch: a request and what the LLM does when the item
\* invokes it
BatchItems ==
    {[request |-> TestGenerationRequest(DESCRIPTION, <<"u","i">>, None, None),
      llm |-> Answers(CODE_FULL)],
     [request |-> TestGenerationRequest(DESCRIPTION, <<"i","n","t","e","g","r","a","t","i","o","n">>, None, None),
      llm |-> Answers(CODE_FULL)],
     [request |-> TestGenerationRequest(Filler(DESCRIPTION_LIMIT + 1), <<"u","n","i","t">>, None, None),
      llm |-> Raises("Exception", LLM_OVERLOADED)]}

ApiInit ==
    /\ ApiIdle
    /\ ChunkIdle
    /\ IngestIdle
    /\ ThreadIdle
    /\ UiIdle

\* a call of an endpoint by a client
CallGenerateTest ==
    /\ \E request \in ApiRequests, llm \in ApiLLMs : GenerateTest(request, llm)
    /\ UNCHANGED pending

CallGenerateTestWithRag ==
    /\ \E request \in RagRequests, llm \in ApiLLMs, b \in ApiBehaviours :
          GenerateTestWithRag(request, llm, b)
    /\ UNCHANGED pending

CallGenerateTestsBatch ==
    /\ \E n \in 0..MaxBatch :
          \E items \in [1..n -> BatchItems] :
             GenerateTestsBatch([i \in 1..n |-> items[i].request],
                                [i \in 1..n |-> items[i].llm])
    /\ UNCHANGED pending

CallQueryRag ==
    /\ \E k \in {None, Some(1)}, b \in ApiBehaviours : QueryRag(k, b)
    /\ UNCHANGED pending

ApiNext ==
    \/ CallGenerateTest
    \/ CallGenerateTestWithRag
    \/ CallGenerateTestsBatch
    \/ CallQueryRag

SpecApi == ApiInit /\ [][ApiNext]_vars

-----------------------------------------------------------------------------
(* Callers of get_vectorstore in a multi-threaded host                     *)

\* the callers that run get_vectorstore at the same time
MaxCallers == 3
Callers == 1..MaxCallers

\* the Chroma object built by caller t; objects built by different calls are
\* different objects
Handle(t) == [store |-> "Chroma", built_by |-> t]

ThreadInit ==
    /\ t_pc = [t \in Callers |-> "test"]
    /\ t_local = [t \in Callers |-> None]
    /\ t_got = [t \in Callers |-> None]
    /\ constructed = {}
    /\ ApiIdle
    /\ ChunkIdle
    /\ IngestIdle
    /\ UiIdle

\* `if _vectorstore is None:` read of the global by caller t
TestHandle(t) ==
    /\ t_pc[t] = "test"
    /\ t_pc' = [t_pc EXCEPT ![t] = IF vectorstore = None THEN "build" ELSE "return"]
    /\ UNCHANGED <<t_local, t_got, constructed>>
    /\ UNCHANGED <<chunkVars, ingestVars, apiVars, uiVars>>

\* HuggingFaceEmbeddings(...) and Chroma(...) evaluated by caller t
BuildHandle(t) ==
    /\ t_pc[t] = "build"
    /\ t_local' = [t_local EXCEPT ![t] = Some(Handle(t))]
    /\ constructed' = constructed \cup {Handle(t)}
    /\ t_pc' = [t_pc EXCEPT ![t] = "store"]
    /\ UNCHANGED t_got
    /\ UNCHANGED <<chunkVars, ingestVars, apiVars, uiVars>>

\* the construction raises: get_vectorstore ends with the exception
BuildRaises(t) ==
    /\ t_pc[t] = "build"
    /\ t_pc' = [t_pc EXCEPT ![t] = "raised"]
    /\ UNCHANGED <<t_local, t_got, constructed>>
    /\ UNCHANGED <<chunkVars, ingestVars, apiVars, uiVars>>

\* `_vectorstore = ...`: caller t stores the object it built in the global
StoreHandle(t) ==
    /\ t_pc[t] = "store"
    /\ vectorstore' = t_local[t]
    /\ t_pc' = [t_pc EXCEPT ![t] = "return"]
    /\ UNCHANGED <<t_local, t_got, constructed>>
    /\ UNCHANGED <<pending, last_call>>
    /\ UNCHANGED <<chunkVars, ingestVars, uiVars>>

\* `return _vectorstore`: caller t is given what the global holds
ReturnHandle(t) ==
    /\ t_pc[t] = "return"
    /\ t_got' = [t_got EXCEPT ![t] = vectorstore]
    /\ t_pc' = [t_pc EXCEPT ![t] = "done"]
    /\ UNCHANGED <<t_local, constructed>>
    /\ UNCHANGED <<chunkVars, ingestVars, apiVars, uiVars>>

Test == \E t \in Callers : TestHandle(t)
Build == \E t \in Callers : BuildHandle(t)
BuildFails == \E t \in Callers : BuildRaises(t)
Store == \E t \in Callers : StoreHandle(t)
Return == \E t \in Callers : ReturnHandle(t)

ThreadNext == Test \/ Build \/ BuildFails \/ Store \/ Return

SpecThreads == ThreadInit /\ [][ThreadNext]_vars
-----------------------------------------------------------------------------
(* Clicks on the dashboard                                                 *)

UI_DESCRIPTION == <<"L","o","g","i","n"," ","w","o","r","k","s">>
UI_SWIFT_CODE == <<"f","u","n","c"," ","t","e","s","t","L","o","g","i","n","(",")"," ","{","}">>
UI_TEST_DATA == [swift_code |-> UI_SWIFT_CODE, class_name |-> <<"L","o","g","i","n","W","o","r","k","s","T","e","s","t">>]
SIMULATOR_ID == <<"A","B","C","D","-","1","2","3","4">>
TIMESTAMP == <<"2","0","2","6","0","1","0","1","_","1","2","0","0","0","0">>
OUT_PASSED == <<"T","e","s","t"," ","C","a","s","e"," ","'","-","[","T"," ","t","e","s","t","L","o","g","i","n","]","'"," ","p","a","s","s","e","d","\n","*","*"," ","T","E","S","T"," ","S","U","C","C","E","E","D","E","D"," ","*","*","\n">>
OUT_FAILED == <<"X","C","T","A","s","s","e","r","t","T","r","u","e"," ","f","a","i","l","e","d","\n","*","*"," ","T","E","S","T"," ","F","A","I","L","E","D"," ","*","*","\n">>
OUT_BUILD == <<"e","r","r","o","r",":"," ","b","u","i","l","d"," ","f","a","i","l","e","d">>
XCODE_NOT_FOUND == <<"x","c","o","d","e","b","u","i","l","d"," ","n","o","t"," ","f","o","u","n","d">>

DescriptionInputs == {<<" ", "\n">>, UI_DESCRIPTION}
ClassNameInputs == {<<>>, <<" ","M","y","T","e","s","t"," ">>}

SubprocessOk == Completed(0, <<>>, <<>>)
BuildSucceeds == Completed(0, <<>>, <<>>)
BuildOutcomes ==
    {BuildSucceeds, Completed(65, OUT_BUILD, <<>>), TimeoutExpired,
     RaisesError(XCODE_NOT_FOUND)}

\* the surroundings of run_xcode_test, each as far as the function gets
TestOutcomes ==
    {Completed(rc, out, <<>>) : rc \in {0, 65}, out \in {OUT_PASSED, OUT_FAILED}}
RunEnvs ==
    {RunEnv(TIMESTAMP, RaisesError(XCODE_NOT_FOUND), SubprocessOk, TimeoutExpired, SubprocessOk, "exits", "none"),
     RunEnv(TIMESTAMP, SubprocessOk, TimeoutExpired, TimeoutExpired, SubprocessOk, "exits", "none"),
     RunEnv(TIMESTAMP, SubprocessOk, SubprocessOk, TimeoutExpired, SubprocessOk, "exits", "none"),
     RunEnv(TIMESTAMP, SubprocessOk, SubprocessOk, RaisesError(XCODE_NOT_FOUND), SubprocessOk, "exits", "none")}
    \cup {RunEnv(TIMESTAMP, SubprocessOk, SubprocessOk, t, SubprocessOk, w, "none") :
             t \in TestOutcomes, w \in {"exits", "timeout"}}
    \cup {RunEnv(TIMESTAMP, SubprocessOk, SubprocessOk, Completed(0, OUT_PASSED, <<>>),
                  RaisesError(XCODE_NOT_FOUND), "exits", "none")}
    \cup {RunEnv(TIMESTAMP, SubprocessOk, SubprocessOk, TimeoutExpired, SubprocessOk, "exits", "starting"),
          RunEnv(TIMESTAMP, RaisesError(XCODE_NOT_FOUND), SubprocessOk, TimeoutExpired, SubprocessOk, "exits", "running"),
          RunEnv(TIMESTAMP, SubprocessOk, SubprocessOk, TimeoutExpired, SubprocessOk, "exits", "running"),
          RunEnv(TIMESTAMP, SubprocessOk, SubprocessOk, Completed(0, OUT_PASSED, <<>>), SubprocessOk, "exits", "stopping")}
RUN_UNREACHED ==
    RunEnv(TIMESTAMP, SubprocessOk, SubprocessOk, TimeoutExpired, SubprocessOk, "exits", "none")

\* what the stages of a script run have met so far; a stage not reached has
\* the value it has here
NothingMet ==
    [generated |-> None, saved |-> FALSE, simulator |-> None, booted |-> FALSE,
     build |-> TimeoutExpired, run |-> RUN_UNREACHED]

NoRunResult == RunResult3(FALSE, <<>>, None, FALSE, <<>>)

MaxClicks == 2

UiInit ==
    /\ UiIdle
    /\ ChunkIdle
    /\ IngestIdle
    /\ ApiIdle
    /\ ThreadIdle

\* no script run is at work: none was started, or the last one ended or was
\* stopped
ScriptAtRest == last_click.pc \in {"idle", "done", "stopped"}

\* A click of one of the two buttons starts a script run, which comes to
\* line 606 with the button's value true
Click(run_btn, test_description, custom_class_name) ==
    /\ last_click' =
          [button |-> IF run_btn THEN "run" ELSE "generate",
           description |-> test_description,
           custom_class_name |-> custom_class_name,
           class_name |-> IF strip(custom_class_name) # <<>> THEN strip(custom_class_name)
                          ELSE sanitize_class_name(test_description),
           pc |-> IF strip(test_description) = <<>> THEN "done" ELSE "generate",
           trace |-> <<>>, env |-> NothingMet, before |-> test_history,
           run |-> NoRunResult, status |-> None, heading |-> None,
           recorded |-> FALSE]
    /\ UNCHANGED <<test_history, current_test>>
    /\ UNCHANGED <<chunkVars, ingestVars, apiVars, threadVars>>

ClickGenerate ==
    /\ ScriptAtRest
    /\ clicks < MaxClicks
    /\ \E d \in DescriptionInputs, c \in ClassNameInputs : Click(FALSE, d, c)
    /\ clicks' = clicks + 1

ClickGenerateAndRun ==
    /\ ScriptAtRest
    /\ clicks < MaxClicks
    /\ \E d \in DescriptionInputs, c \in ClassNameInputs : Click(TRUE, d, c)
    /\ clicks' = clicks + 1

\* the script run goes through stage, which succeeds or not, and on to where
\* the conditionals lead
Advance(stage, succeeded, click) ==
    [click EXCEPT !.trace = Append(@, stage),
                  !.pc = AfterStage(stage, succeeded, click.button = "run")]

\* generate_test(test_description, class_name): the backend's answer, or
\* nothing (lines 613-616)
Generate ==
    /\ last_click.pc = "generate"
    /\ \E g \in {None, Some(UI_TEST_DATA)} :
          last_click' = [Advance("generate", g # None, last_click)
                            EXCEPT !.env.generated = g]
    /\ UNCHANGED <<test_history, current_test, clicks>>
    /\ UNCHANGED <<chunkVars, ingestVars, apiVars, threadVars>>

\* save_test_file(swift_code, class_name) (lines 635-638)
Save ==
    /\ last_click.pc = "save"
    /\ \E ok \in BOOLEAN :
          last_click' = [Advance("save", ok, last_click) EXCEPT !.env.saved = ok]
    /\ UNCHANGED <<test_history, current_test, clicks>>
    /\ UNCHANGED <<chunkVars, ingestVars, apiVars, threadVars>>

\* st.session_state.current_test = {...} (lines 640-649)
Keep ==
    /\ last_click.pc = "keep"
    /\ current_test' =
          Some([class_name |-> last_click.class_name,
                description |-> last_click.description,
                code |-> last_click.env.generated[1].swift_code,
                file_path |-> TEST_FILE])
    /\ last_click' = [last_click EXCEPT !.pc = AfterStage("keep", TRUE, last_click.button = "run")]
    /\ UNCHANGED <<test_history, clicks>>
    /\ UNCHANGED <<chunkVars, ingestVars, apiVars, threadVars>>

\* get_simulator_id(SIMULATOR_NAME) (lines 654-657)
Locate ==
    /\ last_click.pc = "locate"
    /\ \E sim \in {None, Some(SIMULATOR_ID)} :
          last_click' = [Advance("locate", sim # None, last_click)
                            EXCEPT !.env.simulator = sim]
    /\ UNCHANGED <<test_history, current_test, clicks>>
    /\ UNCHANGED <<chunkVars, ingestVars, apiVars, threadVars>>

\* boot_simulator(sim_id) (lines 662-665)
Boot ==
    /\ last_click.pc = "boot"
    /\ \E ok \in BOOLEAN :
          last_click' = [Advance("boot", ok, last_click) EXCEPT !.env.booted = ok]
    /\ UNCHANGED <<test_history, current_test, clicks>>
    /\ UNCHANGED <<chunkVars, ingestVars, apiVars, threadVars>>

\* build_for_testing(sim_id, clean_build) (lines 671-678)
BuildProject ==
    /\ last_click.pc = "build"
    /\ \E b \in BuildOutcomes :
          last_click' = [Advance("build", build_for_testing(b).success, last_click)
                            EXCEPT !.env.build = b]
    /\ UNCHANGED <<test_history, current_test, clicks>>
    /\ UNCHANGED <<chunkVars, ingestVars, apiVars, threadVars>>

\* run_xcode_test(class_name, swift_code, sim_id, record_video=True) (lines
\* 683-689); an exception that stops the script run inside the function ends
\* the script run
RunTest ==
    /\ last_click.pc = "run"
    /\ \E e \in RunEnvs :
          LET Ran(r) ==
                  last_click' = [Advance("run", ~r.raised, last_click)
                                    EXCEPT !.env.run = e, !.run = r]
          IN  Ran(run_xcode_test(last_click.class_name, TRUE, e))
    /\ UNCHANGED <<test_history, current_test, clicks>>
    /\ UNCHANGED <<chunkVars, ingestVars, apiVars, threadVars>>

\* the status shown for the run (lines 691-714)
ShowStatus ==
    /\ last_click.pc = "status"
    /\ last_click' =
          [last_click EXCEPT
              !.status = Some(IF last_click.run.success THEN "PASSED" ELSE "FAILED"),
              !.pc = AfterStage("status", TRUE, TRUE)]
    /\ UNCHANGED <<test_history, current_test, clicks>>
    /\ UNCHANGED <<chunkVars, ingestVars, apiVars, threadVars>>

\* the human-readable summary of the run, made from extract_test_summary of
\* the output (line 697) and shown (lines 736-748)
ShowSummary ==
    /\ last_click.pc = "summary"
    /\ last_click' =
          [last_click EXCEPT
              !.heading = Some(generate_human_summary_heading(
                                   extract_test_summary_passed(last_click.run.output))),
              !.pc = AfterStage("summary", TRUE, TRUE)]
    /\ UNCHANGED <<test_history, current_test, clicks>>
    /\ UNCHANGED <<chunkVars, ingestVars, apiVars, threadVars>>

\* st.session_state.test_history.insert(0, {...}) (lines 751-760);
\* recording_exists is what os.path.exists says of the recording
Record ==
    /\ last_click.pc = "record"
    /\ \E recording_exists \in BOOLEAN :
          test_history' =
              <<[class_name |-> last_click.class_name,
                 description |-> last_click.description,
                 passed |-> last_click.run.success,
                 output |-> last_click.run.output,
                 recording |-> IF last_click.run.recording_path # None /\ recording_exists
                               THEN last_click.run.recording_path ELSE None,
                 human_summary |-> last_click.heading[1]]>> \o test_history
    /\ last_click' = [last_click EXCEPT !.recorded = TRUE,
                                        !.pc = AfterStage("record", TRUE, TRUE)]
    /\ UNCHANGED <<current_test, clicks>>
    /\ UNCHANGED <<chunkVars, ingestVars, apiVars, threadVars>>

\* The session has a new widget event while the script run is at work: the
\* st call that comes next (there is one before every stage) raises the
\* exception that stops the script run, and what the script has written to
\* the session state so far stays. A display step that raises (st.video or
\* open(recording_path), lines 723-725) ends the script run in the same way.
StopScript ==
    /\ ~ScriptAtRest
    /\ last_click' = [last_click EXCEPT !.pc = "stopped"]
    /\ UNCHANGED <<test_history, current_test, clicks>>
    /\ UNCHANGED <<chunkVars, ingestVars, apiVars, threadVars>>

\* the Clear History button of the sidebar (lines 566-568)
ClearHistory ==
    /\ ScriptAtRest
    /\ test_history # <<>>
    /\ test_history' = <<>>
    /\ last_click' = [button |-> "clear", pc |-> "done"]
    /\ UNCHANGED <<current_test, clicks>>
    /\ UNCHANGED <<chunkVars, ingestVars, apiVars, threadVars>>

UiNext ==
    \/ ClickGenerate \/ ClickGenerateAndRun
    \/ Generate \/ Save \/ Keep \/ Locate \/ Boot \/ BuildProject \/ RunTest
    \/ ShowStatus \/ ShowSummary \/ Record
    \/ StopScript \/ ClearHistory

SpecUi == UiInit /\ [][UiNext]_vars
-----------------------------------------------------------------------------
(* Properties of the chunk builder and the auditor                         *)

IsBlockChunk(ch) == ch.meta.kind \in {"swiftui_view", "uikit_viewcontroller"}

\* some keyword of the vocabulary kws stands in t as a whole word
HasKeyword(kws, t) ==
    \E s \in 1..Len(t), k \in 1..Len(kws) :
        /\ MatchLit(t, s, kws[k])
        /\ WordBoundary(t, s)
        /\ WordBoundary(t, s + Len(kws[k]))

\* t holds an accessibility marker of the declarative-call form
HasCallMarker(t) == \E s \in 1..Len(t) : SWIFTUI_A11Y_ID_RE(t, s).e # 0
\* t holds an accessibility marker of the assignment form
HasAssignMarker(t) == \E s \in 1..Len(t) : UIKIT_A11Y_ID_RE(t, s).e # 0

\* the findings are, in order, one for each chunk that satisfies P, each
\* with an accessibility_id_count of 0
FindingsAreFor(P(_)) ==
    LET fl == SelectSeq(f_chunks, P)
    IN  /\ Len(f_findings) = Len(fl)
        /\ \A k \in 1..Len(fl) :
              /\ f_findings[k].path = fl[k].meta.path
              /\ f_findings[k].screen = fl[k].meta.screen
              /\ f_findings[k].accessibility_id_count = 0

\* a block chunk with an interactive keyword of either vocabulary and no
\* accessibility marker of either form
KeywordAndNoMarker(ch) ==
    /\ IsBlockChunk(ch)
    /\ HasKeyword(SWIFTUI_INTERACTIVE_RE, ch.text) \/ HasKeyword(UIKIT_INTERACTIVE_RE, ch.text)
    /\ ~HasCallMarker(ch.text)
    /\ ~HasAssignMarker(ch.text)

\* a block chunk with an interactive keyword of the vocabulary of its own UI
\* paradigm and no accessibility marker of the form of its own UI paradigm
OwnKeywordAndNoOwnMarker(ch) ==
    \/ /\ ch.meta.kind = "swiftui_view"
       /\ HasKeyword(SWIFTUI_INTERACTIVE_RE, ch.text)
       /\ ~HasCallMarker(ch.text)
    \/ /\ ch.meta.kind = "uikit_viewcontroller"
       /\ HasKeyword(UIKIT_INTERACTIVE_RE, ch.text)
       /\ ~HasAssignMarker(ch.text)

\* C3 as stated: the audit emits a finding for a block chunk exactly when the
\* block text holds an interactive-control keyword and no accessibility
\* marker (of the two marker forms), and every finding has an
\* accessibility_id_count of 0
C3_AuditPredicateAsStated ==
    f_phase = "audited" => FindingsAreFor(KeywordAndNoMarker)

\* C3 as amended: the audit emits a finding for a block chunk exactly when the
\* block text holds an interactive-control keyword of the chunk's own UI
\* paradigm and no accessibility marker of the form of that paradigm, and
\* every finding has an accessibility_id_count of 0
C3_AuditPredicate ==
    f_phase = "audited" => FindingsAreFor(OwnKeywordAndNoOwnMarker)

\* an audited file with a flagged block and an unflagged block
C3_Witness ==
    /\ f_phase = "audited"
    /\ Len(f_findings) > 0
    /\ \E k \in 1..Len(f_chunks) :
          IsBlockChunk(f_chunks[k]) /\ ~OwnKeywordAndNoOwnMarker(f_chunks[k])

NoConstruct(t) ==
    \A s \in 1..Len(t) :
        SWIFTUI_VIEW_START_RE(t, s).e = 0 /\ UIKIT_VC_START_RE(t, s).e = 0
NoMarker(t) == ~HasCallMarker(t) /\ ~HasAssignMarker(t)
NoNavLine(t) ==
    \A line \in Range(splitlines(t)) :
        \A i \in 1..Len(NAV_PATTERNS) : ~re_search(NAV_PATTERNS[i], line)

\* the chunks of a file on which nothing is recognized have been built
NothingRecognized ==
    /\ f_phase # "read"
    /\ NoConstruct(f_text)
    /\ NoMarker(f_text)
    /\ NoNavLine(f_text)

OneRawChunk ==
    /\ Len(f_chunks) = 1
    /\ f_chunks[1].meta.kind = "swift_raw"
    /\ Len(f_chunks[1].text) <= RAW_LIMIT

\* C4 as stated: a file with no recognized construct, no accessibility marker
\* and no navigation-trigger line yields exactly one chunk, a raw-fallback
\* chunk of at most 4000 characters
C4_FallbackAsStated == NothingRecognized => OneRawChunk

\* C4 as amended: such a file yields exactly one raw-fallback chunk of at
\* most 4000 characters provided its text holds a character that is not
\* white space
C4_Fallback ==
    NothingRecognized /\ (\E i \in 1..Len(f_text) : f_text[i] \notin WS)
        => OneRawChunk

\* a file longer than the limit has been cut to the limit
C4_Witness ==
    /\ NothingRecognized
    /\ OneRawChunk
    /\ Len(strip(f_text)) > RAW_LIMIT
    /\ Len(f_chunks[1].text) = RAW_LIMIT

\* the brace depth at index i, counted from the opening delimiter at open
Depth(t, open, i) ==
    Cardinality({j \in open..i : t[j] = "{"})
        - Cardinality({j \in open..i : t[j] = "}"})
\* the indexes at which the depth is back to zero
Closings(t, open) == {i \in open..Len(t) : Depth(t, open, i) = 0}
FirstClosing(t, open) ==
    CHOOSE i \in Closings(t, open) : \A j \in Closings(t, open) : i <= j

\* the blocks bs are those of the matches ms, and the block of a balanced
\* declaration runs from the first character of the declaration to the
\* closing delimiter at which the depth is back to zero
BalancedBlocks(t, ms, bs) ==
    /\ Len(bs) = Len(ms)
    /\ \A k \in 1..Len(ms) :
          Closings(t, ms[k].end) # {} =>
              bs[k].block = SubSeq(t, FirstNotIn(t, ms[k].start + 1, WS),
                                   FirstClosing(t, ms[k].end))

\* C7: for every recognized declaration whose braces are balanced, the block
\* of extract_blocks starts at the first character of the declaration and
\* ends at the closing delimiter that brings the depth back to zero
C7_BalancedBraces ==
    f_phase # "read" =>
        /\ BalancedBlocks(f_text, finditer("SWIFTUI_VIEW_START_RE", f_text),
                          f_blocks.views)
        /\ BalancedBlocks(f_text, finditer("UIKIT_VC_START_RE", f_text),
                          f_blocks.vcs)

\* a balanced view block with braces nested three deep
C7_Witness ==
    /\ f_phase # "read"
    /\ \E k \in 1..Len(f_blocks.views) :
          LET m == finditer("SWIFTUI_VIEW_START_RE", f_text)[k]
          IN  /\ Closings(f_text, m.end) # {}
              /\ \E i \in m.end..Len(f_text) :
                    i < FirstClosing(f_text, m.end) /\ Depth(f_text, m.end, i) >= 3
-----------------------------------------------------------------------------
(* Properties of the runs of cmd_ingest                                    *)

\* the run reached upsert_documents
Upserted(run) == run.ran /\ run.result.added

\* C1: of two successive runs of cmd_ingest over the same unchanged tree that
\* both reach upsert_documents, the second computes, document by document, the
\* identifiers the first computed, and the collection holds after the second
\* run as many documents as it held after the first.
C1_IdempotentReingestion ==
    (Upserted(prev_run) /\ Upserted(last_run) /\ last_run.tree = prev_run.tree) =>
        /\ last_run.result.ids = prev_run.result.ids
        /\ Len(last_run.result.store) = Len(prev_run.result.store)
        /\ Len(collection) = Len(last_run.before)

\* two completed runs over a tree of several documents
C1_Witness ==
    /\ Upserted(prev_run) /\ Upserted(last_run)
    /\ last_run.tree = prev_run.tree
    /\ prev_run.result.status = 0 /\ last_run.result.status = 0
    /\ Len(prev_run.before) = 0
    /\ Len(last_run.result.ids) > 2
    /\ Len(collection) > 2

\* the audit of the tree returns a finding and the run has the flag set
FailFastCase(run) ==
    /\ run.ran
    /\ run.args.app_dir_exists
    /\ run.args.fail_if_missing_ids
    /\ Len(iter_swift_files(run.tree)) > 0
    /\ Len(IngestFindings(run.tree)) > 0

\* C2: a run of cmd_ingest with the fail-fast flag set whose audit returns at
\* least one finding returns status 3, neither builds the store handle nor
\* calls add_documents, and leaves the collection as it was before the run.
C2_FailFastGate ==
    FailFastCase(last_run) =>
        /\ last_run.result.status = 3
        /\ ~last_run.result.built
        /\ ~last_run.result.added
        /\ collection = last_run.before

\* a fail-fast run over a flagged tree, after a run that filled the collection
C2_Witness ==
    /\ FailFastCase(last_run)
    /\ last_run.result.status = 3
    /\ Len(last_run.before) > 0
    /\ last_run.result.flagged_screens > 0

-----------------------------------------------------------------------------
(* Properties of query_rag                                                 *)

Served(endpoint) == last_call.endpoint = endpoint

\* the documents the search of the last call of query_rag returned
Retrieved ==
    Take(last_call.behaviour.ranked,
         IF last_call.k = None THEN RAG_TOP_K ELSE last_call.k[1])

\* snippet s was made from document d
SnippetFrom(s, d) ==
    /\ d.metadata.kind = s.kind
    /\ d.metadata.path = s.path
    /\ d.metadata.screen = s.screen
    /\ Len(s.content) <= Len(d.page_content)
    /\ s.content = SubSeq(d.page_content, 1, Len(s.content))

\* C5: the code_snippets of the bundle query_rag returns are at most 5, each
\* was made from a retrieved document whose kind is swiftui_view,
\* accessibility_map or screen_card, and each holds at most 500 characters.
C5_SnippetBounds ==
    Served("query_rag") =>
        LET snippets == last_call.result.bundle.code_snippets
        IN  /\ Len(snippets) <= 5
            /\ \A i \in 1..Len(snippets) :
                /\ snippets[i].kind \in {"swiftui_view", "accessibility_map", "screen_card"}
                /\ Len(snippets[i].content) <= 500
                /\ \E j \in 1..Len(Retrieved) : SnippetFrom(snippets[i], Retrieved[j])

\* a search that returns more than five documents of the allowed kinds, a
\* document of another kind and a document of more than 500 characters
C5_Witness ==
    /\ Served("query_rag")
    /\ Len(SelectSeq(Retrieved, LAMBDA d : d.metadata.kind \in SNIPPET_KINDS)) > 5
    /\ \E j \in 1..Len(Retrieved) : Retrieved[j].metadata.kind \notin SNIPPET_KINDS
    /\ \E j \in 1..Len(Retrieved) :
          /\ Retrieved[j].metadata.kind \in SNIPPET_KINDS
          /\ Len(Retrieved[j].page_content) > 500
    /\ Len(last_call.result.bundle.code_snippets) = 5
    /\ \E i \in 1..5 : Len(last_call.result.bundle.code_snippets[i].content) = 500

\* the store fails in the last call of query_rag: the handle has to be built
\* and cannot be, or the search raises
StoreFails ==
    /\ Served("query_rag")
    /\ \/ last_call.before = None /\ ~last_call.behaviour.build_ok
       \/ ~last_call.behaviour.search_ok

\* C6: when building the store handle or the search fails, query_rag raises
\* nothing and returns a bundle with no accessibility_ids, no screens, no
\* code_snippets, total_docs_retrieved 0 and the message of the failure as
\* its error.
C6_BestEffortRetrieval ==
    StoreFails =>
        /\ ~last_call.result.raised
        /\ last_call.result.bundle.accessibility_ids = <<>>
        /\ last_call.result.bundle.screens = <<>>
        /\ last_call.result.bundle.code_snippets = <<>>
        /\ last_call.result.bundle.total_docs_retrieved = 0
        /\ last_call.result.bundle.error = Some(last_call.behaviour.message)

\* a search that fails on a collection that would have returned documents
C6_Witness ==
    /\ StoreFails
    /\ last_call.before # None
    /\ ~last_call.behaviour.search_ok
    /\ Len(Retrieved) > 0
    /\ last_call.result.bundle.error = Some(SEARCH_FAILED)

-----------------------------------------------------------------------------
(* Properties of the endpoints                                             *)

GenerationCall == Served("generate-test") \/ Served("generate-test-with-rag")

\* the call was refused before the store and the LLM were reached
RefusedAtOnce ==
    /\ last_call.reply.status = 400
    /\ last_call.reply.llm_calls = 0
    /\ last_call.reply.searches = 0
    /\ last_call.reply.constructions = 0
    /\ last_call.reply.response = NoResponse

\* C8 as stated: a request whose test_type is not the value "unit" or the
\* value "ui" is refused with status 400 before the store and the LLM are
\* reached, and a response carries the test_type "unit" or "ui".
C8_TestTypeGateAsStated ==
    GenerationCall =>
        /\ last_call.request.test_type \notin {<<"u","n","i","t">>, <<"u","i">>}
              => RefusedAtOnce
        /\ last_call.reply.status = 200
              => last_call.reply.response.test_type \in {<<"u","n","i","t">>, <<"u","i">>}

\* C8: a request whose test_type, put in lower case and stripped of the
\* white space around it, is not "unit" or "ui" is refused with status 400
\* on /generate-test and on /generate-test-with-rag before the store and the
\* LLM are reached, and a response carries the test_type "unit" or "ui".
C8_TestTypeGate ==
    GenerationCall =>
        /\ strip(lower(last_call.request.test_type)) \notin {<<"u","n","i","t">>, <<"u","i">>}
              => RefusedAtOnce
        /\ last_call.reply.status = 200
              => last_call.reply.response.test_type \in {<<"u","n","i","t">>, <<"u","i">>}

\* /generate-test-with-rag refuses an unrecognized test_type although the
\* LLM would answer and the store would return documents
C8_Witness ==
    /\ Served("generate-test-with-rag")
    /\ last_call.request.test_type = <<"i","n","t","e","g","r","a","t","i","o","n">>
    /\ last_call.llm.raises = "none"
    /\ last_call.behaviour.build_ok /\ last_call.behaviour.search_ok
    /\ RefusedAtOnce

\* the items of the last batch that generate_test serves with a response
Succeeds(i) ==
    /\ strip(lower(last_call.requests[i].test_type)) \in {<<"u","n","i","t">>, <<"u","i">>}
    /\ last_call.llms[i].raises = "none"
Successes == SortedInts({i \in 1..Len(last_call.requests) : Succeeds(i)})
Failures == SortedInts({i \in 1..Len(last_call.requests) : ~Succeeds(i)})

\* C9: generate_tests_batch serves every item in order: errors holds, in
\* order, one entry with its index for each item that fails, results holds,
\* in order, the response of each item that succeeds, whatever failed before
\* it, and generated + failed is the number of items.
C9_BatchIsolation ==
    Served("generate-tests-batch") =>
        LET out == last_call.reply
        IN  /\ out.generated + out.failed = Len(last_call.requests)
            /\ out.generated = Len(out.results)
            /\ out.failed = Len(out.errors)
            /\ Len(out.results) = Len(Successes)
            /\ Len(out.errors) = Len(Failures)
            /\ \A j \in 1..Len(out.errors) :
                  /\ DOMAIN out.errors[j] = {"index", "error", "description"}
                  /\ out.errors[j].index = Failures[j] - 1
                  /\ out.errors[j].description =
                        SubSeq(last_call.requests[Failures[j]].test_description, 1,
                               Min(100, Len(last_call.requests[Failures[j]].test_description)))
                  /\ Len(out.errors[j].error) > 5
                  /\ SubSeq(out.errors[j].error, 1, 5)
                        \in {<<"4","0","0",":"," ">>, <<"5","0","0",":"," ">>}
                  /\ strip(lower(last_call.requests[Failures[j]].test_type))
                        \notin {<<"u","n","i","t">>, <<"u","i">>}
                     => out.errors[j].error = <<"4","0","0",":"," ">> \o TEST_TYPE_ERROR
            /\ \A j \in 1..Len(out.results) :
                  /\ out.results[j].test_type =
                        strip(lower(last_call.requests[Successes[j]].test_type))
                  /\ out.results[j].swift_code =
                        strip_code_fences(last_call.llms[Successes[j]].content)

\* a batch whose first item fails and whose second item is served
C9_Witness ==
    /\ Served("generate-tests-batch")
    /\ Len(last_call.requests) = 2
    /\ ~Succeeds(1) /\ Succeeds(2)
    /\ last_call.reply.generated = 1 /\ last_call.reply.failed = 1
    /\ last_call.reply.errors[1].index = 0

\* what each check of the validator looks for in the code
Expected(name, code) ==
    CASE name = "has_xcuiapplication" -> Contains(code, <<"X","C","U","I","A","p","p","l","i","c","a","t","i","o","n","(",")">>)
      [] name = "has_app_launch" -> Contains(code, <<"a","p","p",".","l","a","u","n","c","h","(",")">>)
      [] name = "has_wait_for_existence" ->
            \/ Contains(code, <<"w","a","i","t","F","o","r","E","x","i","s","t","e","n","c","e","(","t","i","m","e","o","u","t",":">>)
            \/ Contains(code, <<"X","C","T","N","S","P","r","e","d","i","c","a","t","e","E","x","p","e","c","t","a","t","i","o","n">>)
      [] name = "has_assertions" ->
            \E a \in {<<"X","C","T","A","s","s","e","r","t","T","r","u","e">>, <<"X","C","T","A","s","s","e","r","t","E","q","u","a","l">>,
                      <<"X","C","T","A","s","s","e","r","t","F","a","l","s","e">>, <<"X","C","T","A","s","s","e","r","t","N","o","t","N","i","l">>} :
                Contains(code, a)
      [] name = "has_setup_teardown" ->
            /\ Contains(code, <<"s","e","t","U","p","W","i","t","h","E","r","r","o","r">>)
            /\ Contains(code, <<"t","e","a","r","D","o","w","n","W","i","t","h","E","r","r","o","r">>)

CheckNames ==
    {"has_xcuiapplication", "has_app_launch", "has_wait_for_existence",
     "has_assertions", "has_setup_teardown"}

\* C10: the response to a UI-test request carries in its metadata the value
\* of every check of the validator on the generated code, each whatever the
\* others are, all_passed, true exactly when every check is true, and
\* failed_checks, the names of the checks that are false; the response to a
\* unit-test request carries None as its contract_validation.
C10_ContractValidation ==
    (Served("generate-test") /\ last_call.reply.status = 200) =>
        LET response == last_call.reply.response
            validation == response.metadata.contract_validation
        IN  IF response.test_type = <<"u","n","i","t">> THEN validation = None
            ELSE /\ validation # None
                 /\ \A name \in CheckNames :
                       validation[1].checks[name] = Expected(name, response.swift_code)
                 /\ validation[1].all_passed =
                       (\A name \in CheckNames : Expected(name, response.swift_code))
                 /\ Range(validation[1].failed_checks) =
                       {name \in CheckNames : ~Expected(name, response.swift_code)}
                 /\ Len(validation[1].failed_checks) =
                       Cardinality(Range(validation[1].failed_checks))

\* a UI test in which the first check fails and later checks pass
C10_Witness ==
    /\ Served("generate-test") /\ last_call.reply.status = 200
    /\ last_call.reply.response.test_type = <<"u","i">>
    /\ last_call.reply.response.metadata.contract_validation # None
    /\ LET validation == last_call.reply.response.metadata.contract_validation[1]
       IN  /\ ~validation.checks["has_xcuiapplication"]
           /\ validation.checks["has_app_launch"]
           /\ validation.checks["has_setup_teardown"]
           /\ ~validation.all_passed
           /\ validation.failed_checks = <<"has_xcuiapplication", "has_assertions">>

-----------------------------------------------------------------------------
(* Re-ingestion of changed files                                           *)

\* two documents are versions of one chunk: the same kind of chunk of the same
\* file and screen
SameChunk(a, b) ==
    /\ a.metadata.kind = b.metadata.kind
    /\ a.metadata.path = b.metadata.path
    /\ a.metadata.screen = b.metadata.screen

\* the rows of the collection the last run wrote
LatestRows == {r \in Range(collection) : r.id \in Range(last_run.result.ids)}

\* the last run wrote a chunk whose previous version an earlier run had stored
ChangedChunk ==
    /\ Upserted(prev_run) /\ ~prev_run.result.raised
    /\ Upserted(last_run) /\ ~last_run.result.raised
    /\ last_run.tree # prev_run.tree
    /\ \E r \in Range(last_run.before), n \in LatestRows :
           SameChunk(r, n) /\ r.id \notin Range(last_run.result.ids)

\* C11: after a run of cmd_ingest that wrote its documents, every row of the
\* collection that is a version of a chunk the run wrote is the row the run
\* wrote for it (the document of a previous version is replaced, not kept
\* alongside), and a run over the tree of the previous run adds no row.
C11_UpsertReflectsLatest ==
    (Upserted(last_run) /\ ~last_run.result.raised) =>
        /\ \A r \in Range(collection) :
               (\E n \in LatestRows : SameChunk(r, n)) => r \in LatestRows
        /\ (Upserted(prev_run) /\ last_run.tree = prev_run.tree) =>
               Len(collection) = Len(last_run.before)

\* What the code does instead: the rows of earlier versions stay, so after a
\* run that wrote its documents the collection holds every row it held before
\* under another identifier, followed by the rows of the run.
C11_PreviousVersionsKept ==
    (Upserted(last_run) /\ ~last_run.result.raised) =>
        /\ \A r \in Range(last_run.before) : r \in Range(collection)
        /\ ChangedChunk =>
               \E r \in Range(collection), n \in LatestRows :
                   SameChunk(r, n) /\ r \notin LatestRows
-----------------------------------------------------------------------------
(* Failures of the store and of the LLM at the endpoints                   *)

\* the last call is a call of /generate-test-with-rag whose test type is
\* accepted
RagCall ==
    /\ Served("generate-test-with-rag")
    /\ strip(lower(last_call.request.test_type)) \in TEST_TYPES

\* the store fails in that call: the handle has to be built and cannot be, or
\* the search raises
RagStoreFails ==
    /\ RagCall
    /\ \/ last_call.before = None /\ ~last_call.behaviour.build_ok
       \/ ~last_call.behaviour.search_ok

\* the context of a request for which nothing was retrieved
EmptyRagContext ==
    Some([NoContext EXCEPT
        !.app_name = Some(<<"S","a","m","p","l","e","A","p","p">>),
        !.screens = Some(<<>>),
        !.accessibility_ids = Some(<<>>)])

\* what /generate-test answers to the request of the last call with that
\* context
WithoutRetrieval ==
    generate_test(
        TestGenerationRequest(last_call.request.test_description,
                              strip(lower(last_call.request.test_type)),
                              EmptyRagContext, last_call.request.class_name),
        last_call.llm, None)

\* C12: when the store fails during a call of /generate-test-with-rag, the
\* LLM is still invoked once, the status and the generated test are those
\* /generate-test gives for the request with a context in which nothing was
\* retrieved, and when the LLM answers the response is returned with
\* rag_enabled set, the four rag_context numbers zero and rag_error the
\* message of the failure of the store.
C12_RetrievalFailureDoesNotAbort ==
    RagStoreFails =>
        /\ last_call.reply.llm_calls = 1
        /\ last_call.reply.status = WithoutRetrieval.status
        /\ last_call.reply.detail = WithoutRetrieval.detail
        /\ last_call.llm.raises = "none" =>
            /\ last_call.reply.status = 200
            /\ last_call.reply.response.swift_code = WithoutRetrieval.response.swift_code
            /\ last_call.reply.response.test_type = WithoutRetrieval.response.test_type
            /\ last_call.reply.response.class_name = WithoutRetrieval.response.class_name
            /\ last_call.reply.response.metadata.rag_enabled = Some(TRUE)
            /\ last_call.reply.response.metadata.rag_context =
                   Some([accessibility_ids_found |-> 0, screens_found |-> 0,
                         code_snippets_used |-> 0, total_docs_retrieved |-> 0])
            /\ last_call.reply.response.metadata.rag_error =
                   Some(last_call.behaviour.message)

\* the search fails on a store that would have returned documents, the LLM
\* answers and the response is returned
C12_Witness ==
    /\ RagStoreFails
    /\ last_call.before # None
    /\ ~last_call.behaviour.search_ok
    /\ Len(last_call.behaviour.ranked) > 0
    /\ last_call.llm.raises = "none"
    /\ last_call.reply.status = 200
    /\ last_call.reply.response.metadata.rag_error = Some(SEARCH_FAILED)

\* the LLM was invoked in the last call of a generation endpoint and the
\* invocation raised
LLMFails ==
    /\ GenerationCall
    /\ last_call.reply.llm_calls = 1
    /\ last_call.llm.raises # "none"

\* C13: whenever the invocation of the LLM inside TestGenerator.run raises,
\* whatever the class of the exception, /generate-test and
\* /generate-test-with-rag answer with status 500, never 400 and never 200.
C13_UpstreamFailureMapping ==
    LLMFails => last_call.reply.status = 500

\* What the code does: the failure is never answered with 200; it is
\* answered with 400 and the bare message when the exception is a ValueError
\* and with 500 and "Error generating test: " before the message otherwise.
C13_ValueErrorIsClientError ==
    LLMFails =>
        IF last_call.llm.raises = "ValueError"
        THEN /\ last_call.reply.status = 400
             /\ last_call.reply.detail = last_call.llm.message
        ELSE /\ last_call.reply.status = 500
             /\ last_call.reply.detail =
                    <<"E","r","r","o","r"," ","g","e","n","e","r","a","t","i","n","g"," ","t","e","s","t",":"," ">>
                    \o last_call.llm.message
-----------------------------------------------------------------------------
(* Properties of the chunk list of one file                                *)

\* build_chunks_for_file has returned the chunks of the file
Built == f_phase \in {"built", "audited"}

KindAt(i) == f_chunks[i].meta.kind
KindCount(kind) == Cardinality({i \in 1..Len(f_chunks) : KindAt(i) = kind})

\* the place of a chunk in the order of the policy: a screen card has the
\* place of the chunk before it
RECURSIVE Stage(_)
Stage(i) ==
    CASE KindAt(i) = "swiftui_view" -> 1
      [] KindAt(i) = "uikit_viewcontroller" -> 2
      [] KindAt(i) = "accessibility_map" -> 3
      [] KindAt(i) = "navigation_signals" -> 4
      [] KindAt(i) = "screen_card" -> IF i = 1 THEN 0 ELSE Stage(i - 1)
      [] OTHER -> 5

\* the identifiers of a block: those its text holds in the marker form of its
\* paradigm, sorted and without repetition
BlockIds(block) ==
    SortedSeq(Range(findall(IF block.meta.kind = "swiftui_view" THEN "SWIFTUI_A11Y_ID_RE"
                            ELSE "UIKIT_A11Y_ID_RE", block.text)))

\* card is the screen card of block: the same path, screen name, identifiers
\* and navigation facts, in its metadata and in its text
CardOf(card, block) ==
    /\ card.meta.kind = "screen_card"
    /\ card.meta.path = block.meta.path
    /\ card.meta.screen = block.meta.screen
    /\ card.meta.accessibility_ids = block.meta.accessibility_ids
    /\ card.meta.accessibility_id_count = block.meta.accessibility_id_count
    /\ card.meta.navigation_signals = block.meta.navigation_signals
    /\ Contains(card.text, <<"\"","s","c","r","e","e","n","\"",":">> \o JsonStr(block.meta.screen))
    /\ Contains(card.text, <<"\"","p","a","t","h","\"",":">> \o JsonStr(block.meta.path))
    /\ LET Same(ids) ==
               /\ block.meta.accessibility_id_count = Len(ids)
               /\ block.meta.accessibility_ids
                     = (IF ids = <<>> THEN <<>> ELSE join(<<"|">>, Take(ids, META_LIST_LIMIT)))
               /\ Contains(card.text,
                      <<"\"","a","c","c","e","s","s","i","b","i","l","i","t","y","_","i","d","s","\"",":">>
                      \o JsonList([k \in 1..Min(Len(ids), CARD_IDS_LIMIT) |-> JsonStr(ids[k])]))
       IN  Same(BlockIds(block))
    /\ Contains(card.text,
           <<"\"","h","a","s","_","n","a","v","i","g","a","t","i","o","n","_","s","i","g","n","a","l","s","\"",":">>
           \o JsonBool(block.meta.navigation_signals > 0))

\* C14: the chunks of a file stand in the order view blocks, view controller
\* blocks, accessibility map, navigation signals; every view block and view
\* controller block chunk is immediately followed by a screen card with the
\* same path, screen name, accessibility identifiers and navigation facts,
\* and every screen card stands immediately after such a block.
C14_OrderAndPairing ==
    Built =>
        /\ \A i \in 1..Len(f_chunks) :
              IsBlockChunk(f_chunks[i]) =>
                  /\ i < Len(f_chunks)
                  /\ CardOf(f_chunks[i + 1], f_chunks[i])
        /\ \A i \in 1..Len(f_chunks) :
              KindAt(i) = "screen_card" => i > 1 /\ IsBlockChunk(f_chunks[i - 1])
        /\ \A i \in 1..(Len(f_chunks) - 1) : Stage(i) <= Stage(i + 1)
        /\ KindCount("accessibility_map") <= 1
        /\ KindCount("navigation_signals") <= 1

\* a file whose view controller stands before its two views, with identifiers
\* and navigation lines: chunks of all four kinds and three screen cards
C14_Witness ==
    /\ Built
    /\ f_text = T_SCREENS
    /\ Len(f_chunks) = 8
    /\ KindCount("swiftui_view") = 2
    /\ KindCount("uikit_viewcontroller") = 1
    /\ KindCount("screen_card") = 3
    /\ KindAt(7) = "accessibility_map"
    /\ KindAt(8) = "navigation_signals"
    /\ f_chunks[3].meta.screen = <<"W">>
    /\ f_chunks[5].meta.screen = <<"C">>

\* C15: a raw-fallback chunk is in the chunk list of a file only as its sole
\* chunk: it never stands with a block, screen card, accessibility map or
\* navigation signals chunk, and there is never more than one.
C15_FallbackExclusive ==
    Built =>
        /\ KindCount("swift_raw") <= 1
        /\ KindCount("swift_raw") = 1 =>
              /\ Len(f_chunks) = 1
              /\ KindCount("swiftui_view") + KindCount("uikit_viewcontroller")
                 + KindCount("screen_card") + KindCount("accessibility_map")
                 + KindCount("navigation_signals") = 0

\* a file in which nothing is recognized, stored as its raw slice alone
C15_Witness ==
    /\ Built
    /\ Len(strip(f_text)) > 0
    /\ Len(f_chunks) = 1
    /\ KindAt(1) = "swift_raw"
    /\ f_chunks[1].text = strip(f_text)

\* the identifiers either marker form matches in the raw text of the file
FileIds ==
    Range(findall("SWIFTUI_A11Y_ID_RE", f_text))
    \cup Range(findall("UIKIT_A11Y_ID_RE", f_text))

\* the chunks of a kind, in the order of the list
ChunksOfKind(kind) == SelectSeq(f_chunks, LAMBDA ch : ch.meta.kind = kind)

\* the lines of a chunk text after its two heading lines
ListedLines(text) == SubSeq(splitlines(text), 3, Len(splitlines(text)))

\* lines are pairwise distinct and ascend in the order of Python strings
Ascending(lines) ==
    \A i \in 1..(Len(lines) - 1) : StrLess(lines[i], lines[i + 1])

\* C16: the chunk list of a file holds exactly one accessibility-map chunk
\* when some identifier is matched in the raw text of the file (either marker
\* form, inside or outside a block) and none otherwise; the text of the chunk
\* is the heading, the path and the distinct identifiers, each once, in
\* ascending order, and accessibility_id_count is their number.
C16_AccessibilityMap ==
    Built =>
        /\ Len(ChunksOfKind("accessibility_map")) = (IF FileIds = {} THEN 0 ELSE 1)
        /\ \A k \in 1..Len(ChunksOfKind("accessibility_map")) :
              LET map == ChunksOfKind("accessibility_map")[k]
              IN  /\ splitlines(map.text)[1] = <<"A","C","C","E","S","S","I","B","I","L","I","T","Y","_","I","D","S">>
                  /\ splitlines(map.text)[2] = <<"p","a","t","h",":"," ">> \o f_path
                  /\ Range(ListedLines(map.text)) = FileIds
                  /\ Len(ListedLines(map.text)) = Cardinality(FileIds)
                  /\ Ascending(ListedLines(map.text))
                  /\ map.meta.path = f_path
                  /\ map.meta.accessibility_id_count = Cardinality(FileIds)

\* a file whose identifiers all stand outside its blocks, one of them twice
\* and one of the assignment form: the map lists the three of them although
\* no block chunk has any
C16_Witness ==
    /\ Built
    /\ Len(ChunksOfKind("accessibility_map")) = 1
    /\ ListedLines(ChunksOfKind("accessibility_map")[1].text) = << <<"Z">>, <<"a">>, <<"b">> >>
    /\ Len(findall("SWIFTUI_A11Y_ID_RE", f_text)) = 3
    /\ Len(findall("UIKIT_A11Y_ID_RE", f_text)) = 1
    /\ \E i \in 1..Len(f_chunks) : IsBlockChunk(f_chunks[i])
    /\ \A i \in 1..Len(f_chunks) :
          IsBlockChunk(f_chunks[i]) => f_chunks[i].meta.accessibility_id_count = 0

\* the lines of the file that match a navigation pattern, in file order
MatchingLines ==
    SelectSeq(splitlines(f_text),
              LAMBDA line : \E i \in 1..Len(NAV_PATTERNS) : re_search(NAV_PATTERNS[i], line))

\* the text of a navigation-signals chunk that lists lines
NavigationText(lines) ==
    <<"N","A","V","I","G","A","T","I","O","N","_","S","I","G","N","A","L","S","\n","p","a","t","h",":"," ">>
    \o f_path \o <<"\n">> \o join(<<"\n">>, lines)

\* the chunk list holds one navigation-signals chunk when there are lines to
\* list and none otherwise, and the text of the chunk lists them
NavigationChunkLists(lines) ==
    /\ Len(ChunksOfKind("navigation_signals")) = (IF Len(lines) = 0 THEN 0 ELSE 1)
    /\ \A k \in 1..Len(ChunksOfKind("navigation_signals")) :
          /\ ChunksOfKind("navigation_signals")[k].text = NavigationText(lines)
          /\ ChunksOfKind("navigation_signals")[k].meta.path = f_path

\* C17 as stated: the chunk list of a file holds exactly one
\* navigation-signals chunk when some line of the file matches a navigation
\* pattern and none otherwise; its text is the path followed by the matching
\* lines as they stand in the file, in file order, at most 60 of them.
C17_NavigationChunkAsStated ==
    Built =>
        LET matching == MatchingLines
        IN  NavigationChunkLists(Take(matching, 60))

\* C17: the chunk list of a file holds exactly one navigation-signals chunk
\* when some line of the file matches a navigation pattern and none
\* otherwise; its text is the path followed by the first 60 matching lines at
\* most, in file order, each without its leading and trailing white space.
C17_NavigationChunk ==
    Built =>
        LET matching == MatchingLines
            stripped == [k \in 1..Min(60, Len(matching)) |-> strip(matching[k])]
        IN  NavigationChunkLists(stripped)

\* a file of 61 matching lines between lines that do not match: the chunk
\* lists the first 60
C17_Witness ==
    /\ Built
    /\ Len(MatchingLines) = 61
    /\ Len(ChunksOfKind("navigation_signals")) = 1
    /\ Len(splitlines(ChunksOfKind("navigation_signals")[1].text)) = 62
    /\ splitlines(ChunksOfKind("navigation_signals")[1].text)[3] = <<".","s","h","e","e","t","(","1",")">>
    /\ splitlines(ChunksOfKind("navigation_signals")[1].text)[62] = <<".","s","h","e","e","t","(","6","0",")">>

\* the blocks bs are those of the declarations ms, one for each; every
\* declaration ends with its opening delimiter; and the block of a declaration
\* whose depth never returns to zero runs from the first character of the
\* declaration to the last character of the text that is not white space
UnclosedBlocks(t, ms, bs) ==
    /\ Len(bs) = Len(ms)
    /\ \A k \in 1..Len(ms) :
          /\ t[ms[k].end] = "{"
          /\ find(t, "{", ms[k].end - 1) = ms[k].end - 1
          /\ bs[k].name = ms[k].name
          /\ Closings(t, ms[k].end) = {} =>
                bs[k].block = SubSeq(t, FirstNotIn(t, ms[k].start + 1, WS),
                                     LastNotIn(t, WS))

\* C18: extract_blocks returns a block for every recognized declaration; a
\* recognized declaration always has its opening delimiter (the case of none
\* does not arise), and when the brace depth never returns to zero before the
\* end of the text the block runs from the declaration to the end of the
\* text, white space at the end left out.
C18_DegenerateExtent ==
    f_phase # "read" =>
        /\ UnclosedBlocks(f_text, finditer("SWIFTUI_VIEW_START_RE", f_text),
                          f_blocks.views)
        /\ UnclosedBlocks(f_text, finditer("UIKIT_VC_START_RE", f_text),
                          f_blocks.vcs)

\* a view declaration that is never closed, with a closed nested block inside
\* and white space at the end of the text
C18_Witness ==
    /\ f_phase # "read"
    /\ Len(f_text) > 0
    /\ f_text[Len(f_text)] \in WS
    /\ \E k \in 1..Len(f_blocks.views) :
          LET m == finditer("SWIFTUI_VIEW_START_RE", f_text)[k]
          IN  /\ Closings(f_text, m.end) = {}
              /\ \E j \in (m.end + 1)..Len(f_text) : f_text[j] = "}"
              /\ f_blocks.views[k].block[Len(f_blocks.views[k].block)] = "}"
-----------------------------------------------------------------------------
(* Properties of the walk and of the reading of the files                  *)

\* the name has the suffix of a Swift source file
HasSwiftSuffix(name) ==
    /\ Len(name) >= 6
    /\ SubSeq(name, Len(name) - 5, Len(name)) = <<".","s","w","i","f","t">>

\* the directory is pruned: its name is in the denylist or starts with a dot
Pruned(dir) == dir \in EXCLUDE_DIRS \/ (Len(dir) > 0 /\ dir[1] = ".")

\* the file has the suffix and no directory on its path is pruned
Qualifies(f) ==
    /\ HasSwiftSuffix(f.name)
    /\ \A k \in 1..Len(f.dirs) : ~Pruned(f.dirs[k])

\* the last run walked the tree
Walked == last_run.ran /\ last_run.args.app_dir_exists

\* C19: every file iter_swift_files yields has the suffix .swift and no
\* directory on its path below the root is in the denylist or has a name that
\* starts with a dot; every file of the tree with both properties is yielded
\* exactly once; and a run that completes reports their number.
C19_ScannerFilter ==
    Walked =>
        LET yielded == iter_swift_files(last_run.tree)
        IN  /\ \A k \in 1..Len(yielded) :
                  yielded[k] \in Range(last_run.tree) /\ Qualifies(yielded[k])
            /\ \A i \in 1..Len(last_run.tree) :
                  Qualifies(last_run.tree[i]) =>
                      Cardinality({k \in 1..Len(yielded) :
                                      yielded[k] = last_run.tree[i]}) = 1
            /\ last_run.result.status = 2 <=> Len(yielded) = 0
            /\ last_run.result.status = 0 =>
                  last_run.result.indexed_swift_files =
                      Cardinality({i \in 1..Len(last_run.tree) :
                                      Qualifies(last_run.tree[i])})

\* a completed run over the tree with files of every sort: six of its
\* thirteen files are yielded
C19_Witness ==
    /\ Walked
    /\ last_run.tree = SCAN_TREE
    /\ last_run.result.status = 0
    /\ last_run.result.indexed_swift_files = 6
    /\ \E i \in 1..Len(last_run.tree) :
          /\ Len(last_run.tree[i].dirs) = 2
          /\ ~Pruned(last_run.tree[i].dirs[2])
          /\ Pruned(last_run.tree[i].dirs[1])
          /\ HasSwiftSuffix(last_run.tree[i].name)

\* the files of the tree the walk yields and read_text cannot read
Unreadable(tree) == SelectSeq(iter_swift_files(tree), LAMBDA f : ~f.readable)

\* the tree without them
WithoutUnreadable(tree) ==
    SelectSeq(tree, LAMBDA f : f \notin Range(Unreadable(tree)))

\* the last run walked a tree with a file that cannot be read
UnreadableCase == Walked /\ Len(Unreadable(last_run.tree)) > 0

\* C20: in a run of cmd_ingest over a tree with a file that cannot be read,
\* no chunk has the path of that file, the chunks are those of the tree
\* without the file, and the run ends as it ends on the tree without the
\* file (same status, identifiers and collection), the file being counted
\* among the indexed files; when it is the only Swift file the run completes
\* with the audit document alone.
C20_UnreadableNotFatal ==
    UnreadableCase =>
        LET tree == last_run.tree
            without == WithoutUnreadable(tree)
            chunks == AllChunks(iter_swift_files(tree))
            absent == cmd_ingest(last_run.args, without, last_run.before,
                                 rejects_duplicate_ids)
        IN  /\ \A k \in 1..Len(chunks), u \in Range(Unreadable(tree)) :
                  chunks[k].meta.path # normalize_path(u)
            /\ chunks = AllChunks(iter_swift_files(without))
            /\ IF Len(iter_swift_files(without)) = 0
               THEN /\ last_run.result.status = 0
                    /\ last_run.result.documents_upserted = 1
               ELSE /\ last_run.result.status = absent.status
                    /\ last_run.result.ids = absent.ids
                    /\ last_run.result.store = absent.store
                    /\ last_run.result.documents_upserted = absent.documents_upserted
                    /\ last_run.result.status = 0 =>
                          last_run.result.indexed_swift_files =
                              absent.indexed_swift_files + Len(Unreadable(tree))

\* a completed run over a tree whose second file cannot be read: the files
\* before and after it are stored
C20_Witness ==
    /\ UnreadableCase
    /\ last_run.tree = SCAN_TREE_UNREADABLE
    /\ last_run.result.status = 0
    /\ last_run.result.indexed_swift_files = 3
    /\ last_run.result.flagged_screens = 1
    /\ \E r \in Range(collection) : r.metadata.path = normalize_path(last_run.tree[1])
    /\ \E r \in Range(collection) : r.metadata.path = normalize_path(last_run.tree[3])
    /\ \A r \in Range(collection) : r.metadata.path # normalize_path(last_run.tree[2])
-----------------------------------------------------------------------------
(* The documents of a run                                                  *)

\* the chunks and the findings of the tree a run walked
RunChunks(run) == AllChunks(iter_swift_files(run.tree))
RunFindings(run) == IngestFindings(run.tree)

\* the run found Swift files and the fail-fast gate did not end it
NotGated(run) ==
    /\ run.ran
    /\ run.args.app_dir_exists
    /\ Len(iter_swift_files(run.tree)) > 0
    /\ ~(run.args.fail_if_missing_ids /\ Len(RunFindings(run)) > 0)

\* the rows of the collection that are audit summaries written by the run
AuditRows(run) ==
    {r \in Range(collection) :
        /\ r.id \in Range(run.result.ids)
        /\ r.metadata.kind = "accessibility_audit"}

\* the audit summary row carries the findings: their number and the screen
\* of each of them
CarriesFindings(row, findings) ==
    /\ Contains(row.page_content,
           <<"\"","t","o","t","a","l","_","f","l","a","g","g","e","d","\"",":">>
           \o IntStr(Len(findings)) \o <<"}">>)
    /\ Contains(row.page_content,
           <<"\"","f","l","a","g","g","e","d","_","s","c","r","e","e","n","s","\"",":">>
           \o IntStr(Len(findings)) \o <<",">>)
    /\ \A k \in 1..Len(findings) :
          Contains(row.page_content,
              <<"\"","s","c","r","e","e","n","\"",":">> \o JsonStr(findings[k].screen))

\* the run wrote its documents and reported them
WroteAll(run, chunks, findings) ==
    /\ run.result.status = 0
    /\ run.result.built /\ run.result.added
    /\ run.result.documents_upserted = Len(chunks) + 1
    /\ run.result.flagged_screens = Len(findings)
    /\ Len(run.result.ids) = Len(chunks) + 1
    /\ Cardinality(AuditRows(run)) = 1
    /\ \A r \in AuditRows(run) : CarriesFindings(r, findings)
    /\ \A k \in 1..Len(chunks) :
          \E r \in Range(collection) :
              /\ r.id \in Range(run.result.ids)
              /\ r.page_content = chunks[k].text
              /\ r.metadata = chunks[k].meta

\* C21: a run of cmd_ingest that the fail-fast gate does not end writes to the
\* store even when the audit has findings: every chunk of the run and exactly
\* one audit summary document that carries the findings; it returns status 0,
\* documents_upserted equal to the number of chunks plus one and
\* flagged_screens equal to the number of findings.
C21_AuditSummaryPersisted ==
    NotGated(last_run) =>
        LET chunks == RunChunks(last_run)
            findings == RunFindings(last_run)
        IN  WroteAll(last_run, chunks, findings)

\* What the code does: the same, for every run in which the collection takes
\* the batch; a collection that rejects a batch with a repeated identifier
\* ends the run with its exception and nothing written.
C21_PersistedUnlessRejected ==
    NotGated(last_run) =>
        LET chunks == RunChunks(last_run)
            findings == RunFindings(last_run)
        IN  IF last_run.result.raised
            THEN /\ rejects_duplicate_ids
                 /\ Cardinality(Range(last_run.result.ids)) < Len(last_run.result.ids)
                 /\ last_run.result.status = 1
                 /\ collection = last_run.before
            ELSE WroteAll(last_run, chunks, findings)

\* the run handed its documents to the store
HandedOver(run) == run.ran /\ run.result.added

\* the rows the collection holds under the identifiers of the run
RowsOf(run) == {r \in Range(collection) : r.id \in Range(run.result.ids)}

\* C26: in one run of cmd_ingest no two documents handed to the store share an
\* identifier, and documents_upserted of a completed run is the number of
\* documents the store holds from that run.
C26_DistinctIdentifiers ==
    HandedOver(last_run) =>
        /\ \A i, j \in 1..Len(last_run.result.ids) :
              last_run.result.ids[i] = last_run.result.ids[j] => i = j
        /\ last_run.result.status = 0 =>
              last_run.result.documents_upserted = Cardinality(RowsOf(last_run))

\* What the code does: two documents of a run share an identifier exactly when
\* their content and metadata are the same; the store then holds one row for
\* both, or rejects the batch, and a completed run reports the length of the
\* list it handed over.
C26_IdentifierFollowsContent ==
    HandedOver(last_run) =>
        LET docs == IngestDocs(last_run.tree)
            ids == last_run.result.ids
        IN  /\ Len(ids) = Len(docs)
            /\ \A i, j \in 1..Len(ids) : ids[i] = ids[j] <=> docs[i] = docs[j]
            /\ IF last_run.result.raised
               THEN Cardinality(Range(ids)) < Len(ids)
               ELSE /\ last_run.result.documents_upserted = Len(ids)
                    /\ Cardinality(RowsOf(last_run)) = Cardinality(Range(ids))
-----------------------------------------------------------------------------
(* The auditor and the metadata of the chunk builder                       *)

\* the block text holds an interactive keyword of the vocabulary of the
\* chunk's own UI paradigm
HasOwnKeyword(ch) ==
    HasKeyword(IF ch.meta.kind = "swiftui_view" THEN SWIFTUI_INTERACTIVE_RE
               ELSE UIKIT_INTERACTIVE_RE, ch.text)

\* a block chunk whose own metadata counts no identifier and whose text holds
\* an interactive keyword of its paradigm
FlaggedByMetadata(ch) ==
    /\ IsBlockChunk(ch)
    /\ ch.meta.accessibility_id_count = 0
    /\ HasOwnKeyword(ch)

\* the scan of the stored block text for the marker of the chunk's paradigm
\* finds an identifier
RescanFindsIds(ch) ==
    IF ch.meta.kind = "swiftui_view" THEN HasCallMarker(ch.text)
    ELSE HasAssignMarker(ch.text)

\* C25: for every view or view controller chunk of build_chunks_for_file,
\* audit_accessibility emits a finding exactly when the chunk's
\* accessibility_id_count metadata is 0 and its text holds an interactive
\* keyword of its UI paradigm; the scan of the stored text agrees with the
\* metadata on whether the block has identifiers.
C25_AuditorAgreesWithMetadata ==
    f_phase = "audited" =>
        /\ FindingsAreFor(FlaggedByMetadata)
        /\ \A k \in 1..Len(f_chunks) :
              IsBlockChunk(f_chunks[k]) =>
                  /\ RescanFindsIds(f_chunks[k])
                        <=> f_chunks[k].meta.accessibility_id_count > 0
                  /\ f_chunks[k].meta.accessibility_id_count > 0
                        <=> f_chunks[k].meta.accessibility_ids # <<>>

\* an audited file with a view block that holds a control and a marker of the
\* assignment form only: its metadata counts no identifier and it is flagged
C25_Witness ==
    /\ f_phase = "audited"
    /\ Len(f_findings) > 0
    /\ \E k \in 1..Len(f_chunks) :
          /\ f_chunks[k].meta.kind = "swiftui_view"
          /\ HasAssignMarker(f_chunks[k].text)
          /\ FlaggedByMetadata(f_chunks[k])
    /\ \E k \in 1..Len(f_chunks) :
          /\ IsBlockChunk(f_chunks[k])
          /\ HasOwnKeyword(f_chunks[k])
          /\ f_chunks[k].meta.accessibility_id_count > 0

-----------------------------------------------------------------------------
(* The identifiers of a chunk through its metadata string                  *)

\* the identifiers query_rag reads from a metadata string
ReadBack(ids) == IF ids = <<>> THEN <<>> ELSE split(ids, "|")

\* the sorted list, without repetition, of the identifiers the chunk builder
\* extracted for chunk k: those of the block for a block chunk and for the
\* card that follows it, those of the file for the accessibility map
RECURSIVE Extracted(_)
Extracted(k) ==
    CASE KindAt(k) = "swiftui_view" ->
            SortedSeq(Range(findall("SWIFTUI_A11Y_ID_RE", f_chunks[k].text)))
      [] KindAt(k) = "uikit_viewcontroller" ->
            SortedSeq(Range(findall("UIKIT_A11Y_ID_RE", f_chunks[k].text)))
      [] KindAt(k) = "screen_card" -> Extracted(k - 1)
      [] KindAt(k) = "accessibility_map" -> SortedSeq(FileIds)
      [] OTHER -> <<>>

\* C27: for every chunk, splitting its accessibility_ids metadata string on
\* the delimiter gives exactly the sorted list, without repetition, of the
\* identifiers the chunk builder extracted for the chunk: none is lost, split
\* in two or invented.
C27_IdentifierRoundTrip ==
    Built =>
        \A k \in 1..Len(f_chunks) :
            HasKey(f_chunks[k].meta, "accessibility_ids") =>
                ReadBack(f_chunks[k].meta.accessibility_ids) = Extracted(k)

\* What the code does: the string read back is the list of the first
\* META_LIST_LIMIT identifiers, each cut at every delimiter it holds; it is
\* the extracted list when the list is no longer than that and no identifier
\* holds the delimiter.
C27_RoundTripWithinLimits ==
    Built =>
        \A k \in 1..Len(f_chunks) :
            HasKey(f_chunks[k].meta, "accessibility_ids") =>
                LET ids == Extracted(k)
                    back == ReadBack(f_chunks[k].meta.accessibility_ids)
                    kept == Take(ids, META_LIST_LIMIT)
                IN  /\ back = Concat([i \in 1..Len(kept) |-> split(kept[i], "|")])
                    /\ (/\ Len(ids) <= META_LIST_LIMIT
                        /\ \A i \in 1..Len(ids) : "|" \notin Range(ids[i]))
                       => back = ids
-----------------------------------------------------------------------------
(* The content of the bundle                                               *)

\* the entries of a metadata string: the stretches between two delimiters,
\* the start or the end of the string
Entries(s) ==
    {SubSeq(s, p[1], p[2]) : p \in
        {q \in (1..(Len(s) + 1)) \X (0..Len(s)) :
            /\ q[1] <= q[2] + 1
            /\ q[1] = 1 \/ s[q[1] - 1] = "|"
            /\ q[2] = Len(s) \/ s[q[2] + 1] = "|"
            /\ \A x \in q[1]..q[2] : s[x] # "|"}}

\* the entries of the accessibility_ids of the documents, and their screens
EntriesOf(docs) ==
    UNION {Entries(docs[k].metadata.accessibility_ids) :
              k \in {j \in 1..Len(docs) :
                        /\ HasKey(docs[j].metadata, "accessibility_ids")
                        /\ docs[j].metadata.accessibility_ids # <<>>}}
ScreensOf(docs) ==
    {docs[k].metadata.screen :
        k \in {j \in 1..Len(docs) : HasKey(docs[j].metadata, "screen")}} \ {<<>>}

\* the store answered the search of the last call of query_rag
StoreAnswers == Served("query_rag") /\ ~StoreFails

\* C22: for the documents a search returns, query_rag returns
\* accessibility_ids as the sorted list, without repetition, of the entries of
\* the accessibility_ids metadata of all of them, screens as the sorted list,
\* without repetition, of their non-empty screen values, and
\* total_docs_retrieved as their number; for an empty result the three lists
\* are empty, the total is 0 and no error is attached or raised.
C22_BundleContent ==
    StoreAnswers =>
        LET docs == Retrieved
            bundle == last_call.result.bundle
        IN  /\ ~last_call.result.raised
            /\ bundle.error = None
            /\ Ascending(bundle.accessibility_ids)
            /\ Range(bundle.accessibility_ids) = EntriesOf(docs)
            /\ Ascending(bundle.screens)
            /\ Range(bundle.screens) = ScreensOf(docs)
            /\ bundle.total_docs_retrieved = Len(docs)
            /\ docs = <<>> =>
                  /\ bundle.accessibility_ids = <<>>
                  /\ bundle.screens = <<>>
                  /\ bundle.code_snippets = <<>>
                  /\ bundle.total_docs_retrieved = 0

\* a search whose documents name the same identifier more than once, hold a
\* list of two identifiers, and name two screens, next to documents with no
\* identifier and no screen
C22_Witness ==
    /\ StoreAnswers
    /\ \E i, j \in 1..Len(Retrieved) :
          /\ i # j
          /\ HasKey(Retrieved[i].metadata, "accessibility_ids")
          /\ HasKey(Retrieved[j].metadata, "accessibility_ids")
          /\ Retrieved[i].metadata.accessibility_ids = <<"a">>
          /\ Retrieved[j].metadata.accessibility_ids = <<"a", "|", "b">>
    /\ \E i \in 1..Len(Retrieved) : ~HasKey(Retrieved[i].metadata, "screen")
    /\ last_call.result.bundle.accessibility_ids = << <<"a">>, <<"b">> >>
    /\ Len(last_call.result.bundle.screens) = 2
    /\ last_call.result.bundle.total_docs_retrieved > 4

\* the empty store
C22_WitnessEmpty ==
    /\ StoreAnswers
    /\ Retrieved = <<>>
    /\ last_call.result.bundle.total_docs_retrieved = 0

-----------------------------------------------------------------------------
(* The store handle over a sequence of calls                               *)

\* the handles a call constructed
Constructions(call) ==
    IF call.endpoint = "query_rag" THEN call.result.constructions
    ELSE IF call.endpoint \in {"generate-test", "generate-test-with-rag"}
    THEN call.reply.constructions
    ELSE 0

\* the call went to the store: get_vectorstore was called
UsedStore(call) ==
    \/ call.endpoint = "query_rag"
    \/ /\ call.endpoint = "generate-test-with-rag"
       /\ strip(lower(call.request.test_type)) \in TEST_TYPES

\* C23: over every sequence of calls in one process the store handle is
\* constructed by the first call that needs it and not earlier; once a
\* construction has succeeded every later call is given that handle and
\* constructs none, so no call constructs a handle of its own.
C23_SingleStoreHandle ==
    [][ /\ last_call = NoCall => vectorstore = None
        /\ vectorstore = None /\ UsedStore(last_call') => Constructions(last_call') = 1
        /\ vectorstore = None /\ ~UsedStore(last_call') =>
              Constructions(last_call') = 0 /\ vectorstore' = None
        /\ vectorstore = None /\ vectorstore' # None =>
              last_call'.behaviour.build_ok
        /\ vectorstore # None =>
              /\ vectorstore' = vectorstore
              /\ last_call'.before = vectorstore
              /\ Constructions(last_call') = 0 ]_vars

\* a call that goes to the store after an earlier call constructed the handle
C23_Witness ==
    /\ UsedStore(last_call)
    /\ last_call.before = Some("Chroma")
    /\ vectorstore = last_call.before
    /\ Constructions(last_call) = 0
-----------------------------------------------------------------------------
(* Properties of concurrent callers of get_vectorstore                     *)

Returned == {t \in Callers : t_pc[t] = "done"}

\* C24: when two or more callers run get_vectorstore at the same time, the
\* construction of the handle is guarded: in every interleaving at most one
\* handle is ever constructed, and all callers are given the same handle.
C24_GuardedConstruction ==
    /\ Cardinality(constructed) <= 1
    /\ \A t, u \in Returned : t_got[t] = t_got[u]

\* What the code does: every caller that finds the global empty builds a
\* handle of its own and stores it; a caller that returns is given a handle
\* that some caller built, the one the global holds at that moment.
C24_EveryCallerMayConstruct ==
    /\ Cardinality(constructed) <= MaxCallers
    /\ \A t \in Returned : t_got[t] # None /\ t_got[t][1] \in constructed
    /\ vectorstore # None => vectorstore[1] \in constructed
    /\ \A t \in Callers : t_pc[t] = "store" => t_local[t] = Some(Handle(t))
-----------------------------------------------------------------------------
(* Properties of the dashboard's Generate & Run flow                       *)

\* the last event was a click of one of the two buttons, whose script run is
\* at work, has ended or was stopped
ServedClick == last_click.button \in {"generate", "run"}

STAGES == <<"generate", "save", "locate", "boot", "build", "run">>

\* whether the k-th stage met success in the surroundings env
StageSucceeded(env, k) ==
    CASE k = 1 -> env.generated # None
      [] k = 2 -> env.saved
      [] k = 3 -> env.simulator # None
      [] k = 4 -> env.booted
      [] k = 5 -> env.build.kind = "completed" /\ env.build.returncode = 0
      [] OTHER -> TRUE

RunExecuted(trace) == trace # <<>> /\ trace[Len(trace)] = "run"

\* C28: the stages of a click execute in the order generate, save, locate
\* simulator, boot, build, run; a stage executes only if every earlier stage
\* succeeded, the Generate Test button stops after the save, and the test
\* history gains an entry (one, at the front) only after the run stage has
\* executed, whether the test passed or failed; until then it is as the click
\* found it.
C28_StageOrder ==
    ServedClick =>
        LET Ordered(c, trace) ==
                /\ Len(trace) <= Len(STAGES)
                /\ trace = SubSeq(STAGES, 1, Len(trace))
                /\ \A k \in 2..Len(trace) : StageSucceeded(c.env, k - 1)
                /\ c.button = "generate" => Len(trace) <= 2
                /\ c.pc \in {"status", "summary", "record"} => RunExecuted(trace)
                /\ IF c.recorded
                   THEN /\ RunExecuted(trace)
                        /\ Len(test_history) = Len(c.before) + 1
                        /\ Tail(test_history) = c.before
                        /\ test_history[1].passed = c.run.success
                        /\ test_history[1].output = c.run.output
                   ELSE test_history = c.before
        IN  Ordered(last_click, last_click.trace)

\* a click of Generate & Run whose build failed: nothing was run and the
\* history is as before
C28_Witness ==
    /\ ServedClick
    /\ last_click.button = "run"
    /\ last_click.pc = "done"
    /\ last_click.trace = SubSeq(STAGES, 1, 5)
    /\ ~StageSucceeded(last_click.env, 5)
    /\ test_history = last_click.before

\* a click whose test ran and failed: the history has grown by one entry
C28_WitnessRan ==
    /\ ServedClick
    /\ last_click.recorded
    /\ RunExecuted(last_click.trace)
    /\ ~last_click.run.success
    /\ Len(test_history) = Len(last_click.before) + 1

\* a script run stopped after the test ran and before the entry was
\* inserted: current_test is written, the history is as before
C28_WitnessStopped ==
    /\ ServedClick
    /\ last_click.pc = "stopped"
    /\ RunExecuted(last_click.trace)
    /\ ~last_click.run.raised
    /\ current_test # None
    /\ test_history = last_click.before

\* C29: whenever run_xcode_test has started the recording process, the
\* process has been sent SIGINT (followed by SIGKILL when it does not exit
\* in time) or SIGKILL before the function returns, on the normal path, when
\* a command times out and when a step raises; the function returns a triple
\* (success, output, recording_path) and never raises.
C29_RecorderAlwaysStopped ==
    (ServedClick /\ RunExecuted(last_click.trace)) =>
        LET Stopped(r) ==
                /\ ~r.raised
                /\ r.started => r.signals # <<>>
        IN  Stopped(last_click.run)

\* What the code does: run_xcode_test is left by an exception only when an
\* st call inside it stops the script run, and then a recorder that was
\* started is sent nothing; whenever the function returns, a recorder that
\* was started has been sent SIGINT, SIGINT and SIGKILL, or SIGKILL.
C29_StoppedUnlessScriptStops ==
    (ServedClick /\ RunExecuted(last_click.trace)) =>
        LET Stopped(r, env) ==
                /\ r.raised => (env.stop # "none" /\ r.signals = <<>>)
                /\ env.stop = "none" => ~r.raised
                /\ r.success \in BOOLEAN
                /\ r.recording_path # None
                /\ r.started => env.popen.kind = "completed"
                /\ (r.started /\ ~r.raised) =>
                      /\ r.signals \in {<<"SIGINT">>, <<"SIGINT", "SIGKILL">>, <<"SIGKILL">>}
                      /\ (r.signals = <<"SIGINT">>) =>
                            (env.test.kind = "completed" /\ env.wait = "exits")
                /\ ~r.started => r.signals = <<>>
        IN  Stopped(last_click.run, last_click.env.run)

\* the script run is stopped at the st.info that precedes the test command
\* while the recorder is running: the recorder is left running
C29_LeftRunning ==
    /\ ServedClick
    /\ RunExecuted(last_click.trace)
    /\ last_click.run.raised
    /\ last_click.run.started
    /\ last_click.run.signals = <<>>
    /\ last_click.pc = "stopped"

\* the test command timed out while the recorder was running: it was killed
C29_WitnessTimeout ==
    /\ ServedClick
    /\ RunExecuted(last_click.trace)
    /\ last_click.run.started
    /\ last_click.env.run.test.kind = "timeout"
    /\ last_click.run.signals = <<"SIGKILL">>
    /\ last_click.run.output = TEST_TIMED_OUT

\* the recorder did not exit within the wait after the interrupt
C29_WitnessWait ==
    /\ ServedClick
    /\ RunExecuted(last_click.trace)
    /\ last_click.env.run.wait = "timeout"
    /\ last_click.run.signals = <<"SIGINT", "SIGKILL">>

\* a step after the test command raised while the recorder was running
C29_WitnessRaises ==
    /\ ServedClick
    /\ RunExecuted(last_click.trace)
    /\ last_click.run.started
    /\ last_click.env.run.test.kind = "completed"
    /\ last_click.env.run.stopping.kind = "raises"
    /\ last_click.run.signals = <<"SIGKILL">>

\* C30: for every test run the verdict of the human-readable summary (shown,
\* and stored as the entry's human_summary) agrees with the reported status
\* (the success value of run_xcode_test, stored as the entry's passed field):
\* never one passed and the other failed.
C30_VerdictConsistency ==
    /\ \A i \in 1..Len(test_history) :
          test_history[i].passed <=> test_history[i].human_summary = HEADING_PASSED
    /\ (ServedClick /\ last_click.status # None /\ last_click.heading # None) =>
          (last_click.status = Some("PASSED")
              <=> last_click.heading = Some(HEADING_PASSED))

\* What the code does: the summary's verdict follows the output alone, the
\* status also the return code; a passed status always has a passed summary,
\* and the two differ exactly when the test command exits with another code
\* than 0 while its output holds TEST SUCCEEDED.
C30_SummaryFollowsOutputOnly ==
    /\ \A i \in 1..Len(test_history) :
          /\ test_history[i].human_summary \in {HEADING_PASSED, HEADING_FAILED}
          /\ test_history[i].human_summary = HEADING_PASSED
                <=> Contains(test_history[i].output, TEST_SUCCEEDED)
          /\ test_history[i].passed => test_history[i].human_summary = HEADING_PASSED
    /\ (ServedClick /\ last_click.status # None /\ last_click.heading # None) =>
          LET Differ(c) ==
                  (c.status = Some("FAILED") /\ c.heading = Some(HEADING_PASSED))
                      <=> /\ c.env.run.test.kind = "completed"
                          /\ c.env.run.test.returncode # 0
                          /\ Contains(c.run.output, TEST_SUCCEEDED)
                          /\ c.run.output = c.env.run.test.stdout \o c.env.run.test.stderr
          IN  Differ(last_click)

\* a run whose status is FAILED under a summary headed as passed
C30_Disagreement ==
    /\ ServedClick
    /\ last_click.recorded
    /\ last_click.status = Some("FAILED")
    /\ last_click.heading = Some(HEADING_PASSED)
    /\ ~test_history[1].passed
    /\ test_history[1].human_summary = HEADING_PASSED
====
